---- MODULE Spec2Model ----
(***************************************************************************)
(* A model of the data-cleaning pipeline and the statistics of the Google  *)
(* Play Store analytics dashboard (utils/dataProcessor.js,                 *)
(* utils/constants.js, utils/statisticalAnalysis.js, utils/analytics.js).  *)
(*                                                                         *)
(* JavaScript values are records [t, s, n, d]:                             *)
(*   t = "undefined" | "null" | "boolean" | "string" | "number" | "NaN"    *)
(*   s = the characters of a string (a sequence of 1-character strings)    *)
(*   n, d = a number n / 10^d (d = 0 for integers), a boolean as n = 0|1   *)
(* Every record carries all four fields so that any two values compare.    *)
(***************************************************************************)
EXTENDS Integers, Sequences, FiniteSets

VARIABLES
    pc,                \* position of the run under check
    installString,     \* raw Installs cell handed to convertInstallsToNumber
    installsNumber,    \* result of convertInstallsToNumber
    installsCategory,  \* result of categorizeInstalls
    apps,              \* list of App records handed to the function under check
    cleanApps,         \* result of removeDuplicateApps(apps)
    filters,           \* criteria object handed to filterApps
    filteredApps,      \* result of filterApps(apps, filters)
    refilteredApps,    \* result of filterApps(filteredApps, filters)
    rawData,           \* raw app rows handed to processAppsData
    processedApps,     \* outcome of processAppsData(rawData)
    rawReviews,        \* raw review rows handed to processReviewsData
    processedReviews,  \* outcome of processReviewsData(rawReviews)
    reviews,           \* list of Review records handed to mergeAppsWithSentiment
    enrichedApps,      \* result of mergeAppsWithSentiment(apps, reviews)
    values,            \* list handed to calculateBasicStats or calculateFrequencyAnalysis
    basicStats,        \* result of calculateBasicStats(values)
    xs,                \* first list handed to calculateCorrelation
    ys,                \* second list handed to calculateCorrelation
    correlation,       \* result of calculateCorrelation(xs, ys)
    topN,              \* second argument of calculateFrequencyAnalysis
    frequencyAnalysis, \* result of calculateFrequencyAnalysis(values, topN)
    categoryPerformance, \* outcome of analyzeCategoryPerformance(apps)
    overviewAnalytics, \* result of generateOverviewAnalytics(apps)
    marketShare,       \* outcome of calculateMarketShare(apps)
    ratingAnalytics,   \* result of generateRatingAnalytics(apps)
    sentimentAnalytics, \* result of generateSentimentAnalytics(reviews)
    analytics,         \* outcome of generateAnalytics(apps, reviews)
    ratings,           \* list handed to analyzeRatingDistribution
    ratingDistribution, \* result of analyzeRatingDistribution(ratings)
    rawCell,           \* raw cell handed to the three field converters
    sizeBytes,         \* result of convertSizeToBytes(rawCell)
    priceNumber,       \* result of convertPriceToNumber(rawCell)
    chartData,         \* outcome of generateChartData(apps)
    loaderState,       \* the state object of useDataLoader
    cycles,            \* the load cycles of useDataLoader: fetches, promise, position
    appFilters,        \* the filters state of App
    hookApps,          \* the apps argument of useAnalytics
    hookReviews,       \* the reviews argument of useAnalytics
    hookState          \* the state object of useAnalytics

installVars == <<installString, installsNumber, installsCategory>>
dedupVars   == <<cleanApps>>
filterVars  == <<filters, filteredApps, refilteredApps>>
cleanVars   == <<rawData, processedApps, rawReviews, processedReviews>>
mergeVars   == <<reviews, enrichedApps>>
statsVars   == <<values, basicStats>>
corrVars    == <<xs, ys, correlation>>
freqVars    == <<topN, frequencyAnalysis>>
categoryVars == <<categoryPerformance>>
percentVars == <<overviewAnalytics, marketShare, ratingAnalytics, sentimentAnalytics>>
analyticsVars == <<analytics>>
ratingVars  == <<ratings, ratingDistribution>>
convertVars == <<rawCell, sizeBytes, priceNumber>>

chartVars   == <<chartData>>
loaderVars  == <<loaderState, cycles>>
dashboardVars == <<appFilters, hookApps, hookReviews, hookState>>

\* The variables of hooks/useDataLoader.js, hooks/useAnalytics.js, App.jsx and
\* generateChartData.
viewVars    == <<chartVars, loaderVars, dashboardVars>>

\* The variables of utils/statisticalAnalysis.js and utils/analytics.js.
toolkitVars == <<statsVars, corrVars, freqVars, ratingVars>>
engineVars  == <<categoryVars, percentVars, analyticsVars>>

vars == <<pc, apps, installVars, dedupVars, filterVars, cleanVars, mergeVars,
          toolkitVars, engineVars, convertVars, viewVars>>

\* What the actions of one specification leave alone.
outsideInstalls == <<apps, dedupVars, filterVars, cleanVars, mergeVars,
                     toolkitVars, engineVars, convertVars, viewVars>>
outsideDedup    == <<installVars, filterVars, cleanVars, mergeVars,
                     toolkitVars, engineVars, convertVars, viewVars>>
outsideFilter   == <<installVars, dedupVars, cleanVars, mergeVars,
                     toolkitVars, engineVars, convertVars, viewVars>>
outsideClean    == <<apps, installVars, dedupVars, filterVars, mergeVars,
                     toolkitVars, engineVars, convertVars, viewVars>>
outsideMerge    == <<installVars, dedupVars, filterVars, cleanVars,
                     toolkitVars, engineVars, convertVars, viewVars>>
pipelineVars    == <<installVars, dedupVars, filterVars, cleanVars>>
outsideStats    == <<apps, pipelineVars, mergeVars, corrVars, freqVars, ratingVars,
                     engineVars, convertVars, viewVars>>
outsideCorr     == <<apps, pipelineVars, mergeVars, statsVars, freqVars, ratingVars,
                     engineVars, convertVars, viewVars>>
outsideFreq     == <<apps, pipelineVars, mergeVars, basicStats, corrVars, ratingVars,
                     engineVars, convertVars, viewVars>>
outsideRatings  == <<apps, pipelineVars, mergeVars, statsVars, corrVars, freqVars,
                     engineVars, convertVars, viewVars>>
outsideCategory == <<pipelineVars, mergeVars, toolkitVars, percentVars,
                     analyticsVars, convertVars, viewVars>>
outsidePercent  == <<pipelineVars, enrichedApps, toolkitVars, categoryVars,
                     analyticsVars, convertVars, viewVars>>
outsideAnalytics == <<pipelineVars, enrichedApps, toolkitVars, categoryVars,
                      percentVars, convertVars, viewVars>>
outsideConvert  == <<apps, installString, installsCategory, dedupVars, filterVars,
                     cleanVars, mergeVars, toolkitVars, engineVars, viewVars>>
outsideChart    == <<pipelineVars, mergeVars, statsVars, corrVars, freqVars,
                     engineVars, convertVars, loaderVars, dashboardVars>>
outsideLoader   == <<apps, pipelineVars, mergeVars, toolkitVars, engineVars,
                     convertVars, chartVars, dashboardVars>>
outsideDashboard == <<apps, pipelineVars, mergeVars, toolkitVars, engineVars,
                      convertVars, chartVars, loaderVars>>

----------------------------------------------------------------------------
(* JavaScript values *)

Undefined == [t |-> "undefined", s |-> <<>>, n |-> 0, d |-> 0]
Null      == [t |-> "null",      s |-> <<>>, n |-> 0, d |-> 0]
NaN       == [t |-> "NaN",       s |-> <<>>, n |-> 0, d |-> 0]
True      == [t |-> "boolean",   s |-> <<>>, n |-> 1, d |-> 0]
False     == [t |-> "boolean",   s |-> <<>>, n |-> 0, d |-> 0]
Str(chars) == [t |-> "string",   s |-> chars, n |-> 0, d |-> 0]
Num(k)    == [t |-> "number",    s |-> <<>>, n |-> k, d |-> 0]

RECURSIVE Pow10(_)
Pow10(k) == IF k = 0 THEN 1 ELSE 10 * Pow10(k - 1)

\* The number m / 10^k in lowest decimal form (4.50 and 4.5 are one value).
RECURSIVE Dec(_, _)
Dec(m, k) ==
    IF k > 0 /\ m % 10 = 0 THEN Dec(m \div 10, k - 1)
    ELSE [t |-> "number", s |-> <<>>, n |-> m, d |-> k]

IsNullish(v) == v.t \in {"undefined", "null"}

\* ToBoolean: what `!v`, `v && ...` and `v || ...` test.
Truthy(v) ==
    CASE v.t = "string"  -> v.s # <<>>
      [] v.t = "number"  -> v.n # 0
      [] v.t = "boolean" -> v.n = 1
      [] OTHER           -> FALSE

\* a || b
Or(a, b) == IF Truthy(a) THEN a ELSE b

\* x < y and x >= y on two numbers n / 10^d
NumLt(x, y) == x.n * Pow10(y.d) < y.n * Pow10(x.d)
NumGe(x, y) == x.n * Pow10(y.d) >= y.n * Pow10(x.d)

----------------------------------------------------------------------------
(* Strings *)

Digits == <<"0", "1", "2", "3", "4", "5", "6", "7", "8", "9">>
DigitSet == {Digits[i] : i \in 1..Len(Digits)}
DigitVal(c) == (CHOOSE i \in 1..Len(Digits) : Digits[i] = c) - 1

WhiteSpace == {" ", "\t"}

RECURSIVE TrimStart(_)
TrimStart(str) ==
    IF str # <<>> /\ Head(str) \in WhiteSpace THEN TrimStart(Tail(str)) ELSE str

RECURSIVE TrimEnd(_)
TrimEnd(str) ==
    IF str # <<>> /\ str[Len(str)] \in WhiteSpace
    THEN TrimEnd(SubSeq(str, 1, Len(str) - 1)) ELSE str

\* String.prototype.trim
Trim(str) == TrimEnd(TrimStart(str))

\* The longest prefix of str made of decimal digits.
RECURSIVE DigitPrefix(_)
DigitPrefix(str) ==
    IF str # <<>> /\ Head(str) \in DigitSet
    THEN <<Head(str)>> \o DigitPrefix(Tail(str)) ELSE <<>>

RECURSIVE DigitsValue(_)
DigitsValue(ds) ==
    IF ds = <<>> THEN 0
    ELSE 10 * DigitsValue(SubSeq(ds, 1, Len(ds) - 1)) + DigitVal(ds[Len(ds)])

RECURSIVE NatToString(_)
NatToString(k) ==
    IF k < 10 THEN <<Digits[k + 1]>>
    ELSE NatToString(k \div 10) \o <<Digits[(k % 10) + 1]>>

\* The d digits of the fraction f / 10^d.
RECURSIVE FracToString(_, _)
FracToString(f, k) ==
    IF k = 0 THEN <<>>
    ELSE FracToString(f \div 10, k - 1) \o <<Digits[(f % 10) + 1]>>

Abs(k) == IF k < 0 THEN -k ELSE k

\* String(v)
String(v) ==
    CASE v.t = "string"    -> v.s
      [] v.t = "undefined" -> <<"u","n","d","e","f","i","n","e","d">>
      [] v.t = "null"      -> <<"n","u","l","l">>
      [] v.t = "NaN"       -> <<"N","a","N">>
      [] v.t = "boolean"   -> IF v.n = 1 THEN <<"t","r","u","e">>
                                         ELSE <<"f","a","l","s","e">>
      [] v.t = "number"    ->
            (IF v.n < 0 THEN <<"-">> ELSE <<>>)
            \o NatToString(Abs(v.n) \div Pow10(v.d))
            \o (IF v.d = 0 THEN <<>>
                ELSE <<".">> \o FracToString(Abs(v.n) % Pow10(v.d), v.d))

\* str.replace(/[chars]/g, '')
RECURSIVE RemoveAll(_, _)
RemoveAll(str, chars) ==
    IF str = <<>> THEN <<>>
    ELSE (IF Head(str) \in chars THEN <<>> ELSE <<Head(str)>>)
         \o RemoveAll(Tail(str), chars)

\* parseInt(str) with no radix, for strings without a 0x prefix: leading
\* white space is skipped, one sign is read, then the longest run of decimal
\* digits; no digit gives NaN.
parseInt(str) ==
    LET t == TrimStart(str)
        signed == t # <<>> /\ Head(t) \in {"+", "-"}
        body == IF signed THEN Tail(t) ELSE t
        ds == DigitPrefix(body)
    IN IF ds = <<>> THEN NaN
       ELSE IF signed /\ Head(t) = "-" THEN Num(-DigitsValue(ds))
       ELSE Num(DigitsValue(ds))

\* parseFloat(str), for strings without an exponent part or the word
\* Infinity: leading white space is skipped, one sign is read, then digits,
\* and after a point more digits; no digit at all gives NaN.
parseFloat(str) ==
    LET t == TrimStart(str)
        signed == t # <<>> /\ Head(t) \in {"+", "-"}
        body == IF signed THEN Tail(t) ELSE t
        ints == DigitPrefix(body)
        rest == SubSeq(body, Len(ints) + 1, Len(body))
        fracs == IF rest # <<>> /\ Head(rest) = "."
                 THEN DigitPrefix(Tail(rest)) ELSE <<>>
        magnitude == DigitsValue(ints \o fracs)
    IN IF ints = <<>> /\ fracs = <<>> THEN NaN
       ELSE IF signed /\ Head(t) = "-" THEN Dec(-magnitude, Len(fracs))
       ELSE Dec(magnitude, Len(fracs))

UpperCase == <<"A", "B", "C", "D", "E", "F", "G", "H", "I", "J", "K", "L", "M",
               "N", "O", "P", "Q", "R", "S", "T", "U", "V", "W", "X", "Y", "Z">>
LowerCase == <<"a", "b", "c", "d", "e", "f", "g", "h", "i", "j", "k", "l", "m",
               "n", "o", "p", "q", "r", "s", "t", "u", "v", "w", "x", "y", "z">>

\* String.prototype.toLowerCase
toLowerCase(str) ==
    [i \in 1..Len(str) |->
        IF \E k \in 1..Len(UpperCase) : UpperCase[k] = str[i]
        THEN LowerCase[CHOOSE k \in 1..Len(UpperCase) : UpperCase[k] = str[i]]
        ELSE str[i]]

\* str.replace(c, ''): the first occurrence of the character c is removed.
RECURSIVE RemoveFirst(_, _)
RemoveFirst(str, c) ==
    IF str = <<>> THEN <<>>
    ELSE IF Head(str) = c THEN Tail(str)
    ELSE <<Head(str)>> \o RemoveFirst(Tail(str), c)

\* cell?.trim(): undefined for a missing cell, the trimmed text of a string.
\* For any other cell (a number, a boolean) .trim is not a function and the
\* call throws a TypeError: see Trimmable.
OptionalTrim(cell) == IF IsNullish(cell) THEN Undefined ELSE Str(Trim(cell.s))

Trimmable(cell) == IsNullish(cell) \/ cell.t = "string"

----------------------------------------------------------------------------
(* Texts of cells *)

NameA == <<"a">>
NameB == <<"B", "o", "b">>
Name7 == <<"7">>
GAME  == <<"G", "A", "M", "E">>
TOOLS == <<"T", "O", "O", "L", "S">>
Free  == <<"F", "r", "e", "e">>
Paid  == <<"P", "a", "i", "d">>
Everyone == <<"E", "v", "e", "r", "y", "o", "n", "e">>
Teen  == <<"T", "e", "e", "n">>
ZeroText == <<"0">>

----------------------------------------------------------------------------
(* utils/constants.js *)

\* `Infinity` as the upper end of the last install range: above every number
\* the model can hold.
Infinity == 2147483647

INSTALL_RANGES == <<
    [label |-> "0-1K",     min |-> 0,         max |-> 1000],
    [label |-> "1K-10K",   min |-> 1000,      max |-> 10000],
    [label |-> "10K-100K", min |-> 10000,     max |-> 100000],
    [label |-> "100K-1M",  min |-> 100000,    max |-> 1000000],
    [label |-> "1M-10M",   min |-> 1000000,   max |-> 10000000],
    [label |-> "10M-100M", min |-> 10000000,  max |-> 100000000],
    [label |-> "100M+",    min |-> 100000000, max |-> Infinity] >>

----------------------------------------------------------------------------
(* utils/dataProcessor.js: field normalisers *)

convertInstallsToNumber(v) ==
    IF ~Truthy(v) THEN Num(0)
    ELSE Or(parseInt(Trim(RemoveAll(String(v), {",", "+"}))), Num(0))

\* The entries of INSTALL_RANGES whose test `installs >= min && installs < max`
\* holds, as indexes in table order.
MatchingRanges(installs) ==
    {i \in 1..Len(INSTALL_RANGES) :
        /\ NumGe(installs, Num(INSTALL_RANGES[i].min))
        /\ NumLt(installs, Num(INSTALL_RANGES[i].max))}

\* categorizeInstalls with closed intervals min <= n <= max
\* (mutant of categorizeInstalls).
categorizeInstalls_closed(installs) ==
    LET hits == {i \in 1..Len(INSTALL_RANGES) :
                    /\ NumGe(installs, Num(INSTALL_RANGES[i].min))
                    /\ ~NumLt(Num(INSTALL_RANGES[i].max), installs)}
    IN IF hits = {} THEN "Unknown"
       ELSE INSTALL_RANGES[CHOOSE i \in hits : \A j \in hits : i <= j].label

\* Array.prototype.find returns the first matching entry.
categorizeInstalls(installs) ==
    LET hits == MatchingRanges(installs)
    IN IF hits = {} THEN "Unknown"
       ELSE INSTALL_RANGES[CHOOSE i \in hits : \A j \in hits : i <= j].label

----------------------------------------------------------------------------
(* App records.  Every field is a JavaScript value. *)

App(name, category, rating, reviewCount, installCount, type, contentRating, isPaid) ==
    [app |-> name, category |-> category, rating |-> rating,
     reviews |-> reviewCount, installsNumber |-> installCount, type |-> type,
     contentRating |-> contentRating, isPaid |-> isPaid]

\* What _.maxBy returns for an array in which no element has a usable value.
NoApp == App(Undefined, Undefined, Undefined, Undefined, Undefined,
             Undefined, Undefined, Undefined)

----------------------------------------------------------------------------
(* lodash and Object.values, as removeDuplicateApps uses them *)

\* Property keys that are array indexes ("0", "7", "10", not "07"): an object
\* lists them first, in ascending numeric order.  (Names of ten digits and more
\* are beyond the numbers of the model and count as ordinary keys.)
IsArrayIndex(key) ==
    /\ key # <<>>
    /\ Len(key) <= 9
    /\ \A i \in 1..Len(key) : key[i] \in DigitSet
    /\ (Len(key) = 1 \/ key[1] # "0")

\* The distinct members of a sequence of keys, in order of first occurrence:
\* the order in which _.groupBy creates the properties of its result.
RECURSIVE InsertionOrder(_)
InsertionOrder(keys) ==
    IF keys = <<>> THEN <<>>
    ELSE LET front == InsertionOrder(SubSeq(keys, 1, Len(keys) - 1))
             last == keys[Len(keys)]
         IN IF \E i \in 1..Len(front) : front[i] = last
            THEN front ELSE Append(front, last)

\* Array-index keys in ascending numeric order.
RECURSIVE SortIndexKeys(_)
SortIndexKeys(keyset) ==
    IF keyset = {} THEN <<>>
    ELSE LET least == CHOOSE k \in keyset :
                        \A other \in keyset : DigitsValue(k) <= DigitsValue(other)
         IN <<least>> \o SortIndexKeys(keyset \ {least})

\* The own-property order of an object whose keys were created in the order
\* `created`: array indexes ascending, then the other keys as created.
OwnKeys(created) ==
    SortIndexKeys({created[i] : i \in {j \in 1..Len(created) : IsArrayIndex(created[j])}})
    \o SelectSeq(created, LAMBDA k : ~IsArrayIndex(k))

\* The group of one key of _.groupBy(apps, 'app'): its apps, in input order.
GroupOf(appList, key) == SelectSeq(appList, LAMBDA a : String(a.app) = key)

\* Object.values(_.groupBy(apps, 'app')): the groups in own-property order.
groupByApp(appList) ==
    LET created == InsertionOrder([i \in 1..Len(appList) |-> String(appList[i].app)])
        keys == OwnKeys(created)
    IN [i \in 1..Len(keys) |-> GroupOf(appList, keys[i])]

\* lodash baseGt on two numbers
baseGt(value, other) == NumLt(other, value)

\* _.maxBy taking a later element on a tie, >= for > (mutant of maxBy).
RECURSIVE maxBy_lastOnTie(_)
maxBy_lastOnTie(group) ==
    IF group = <<>> THEN [computed |-> Undefined, result |-> NoApp]
    ELSE LET acc == maxBy_lastOnTie(SubSeq(group, 1, Len(group) - 1))
             value == group[Len(group)]
             current == value.reviews
         IN IF /\ ~IsNullish(current)
               /\ (IF acc.computed = Undefined THEN current.t = "number"
                   ELSE current.t = "number" /\ NumGe(current, acc.computed))
            THEN [computed |-> current, result |-> value]
            ELSE acc

\* _.maxBy keeping the smallest value (mutant of maxBy).
RECURSIVE maxBy_min(_)
maxBy_min(group) ==
    IF group = <<>> THEN [computed |-> Undefined, result |-> NoApp]
    ELSE LET acc == maxBy_min(SubSeq(group, 1, Len(group) - 1))
             value == group[Len(group)]
             current == value.reviews
         IN IF /\ ~IsNullish(current)
               /\ (IF acc.computed = Undefined THEN current.t = "number"
                   ELSE current.t = "number" /\ NumLt(current, acc.computed))
            THEN [computed |-> current, result |-> value]
            ELSE acc

\* _.maxBy(group, 'reviews') (lodash baseExtremum): the running maximum and
\* the element that set it, after the whole array has been scanned from the
\* left.  An element replaces the result only if its value is not null or
\* undefined and, when a maximum exists, is strictly greater.
RECURSIVE maxBy(_)
maxBy(group) ==
    IF group = <<>> THEN [computed |-> Undefined, result |-> NoApp]
    ELSE LET acc == maxBy(SubSeq(group, 1, Len(group) - 1))
             value == group[Len(group)]
             current == value.reviews
         IN IF /\ ~IsNullish(current)
               /\ (IF acc.computed = Undefined THEN current.t = "number"
                   ELSE current.t = "number" /\ baseGt(current, acc.computed))
            THEN [computed |-> current, result |-> value]
            ELSE acc

----------------------------------------------------------------------------
(* utils/dataProcessor.js: removeDuplicateApps *)

removeDuplicateApps(appList) ==
    LET groupedApps == groupByApp(appList)
    IN [i \in 1..Len(groupedApps) |->
          IF Len(groupedApps[i]) = 1 THEN groupedApps[i][1]
          ELSE maxBy(groupedApps[i]).result]

----------------------------------------------------------------------------
(* utils/dataProcessor.js: filterApps *)

\* a === b
StrictEq(a, b) == a.t # "NaN" /\ a = b

\* ToNumber of a number, null, undefined, NaN or boolean operand of >=.
ToNumber(v) ==
    CASE v.t = "number"  -> v
      [] v.t = "null"    -> Num(0)
      [] v.t = "boolean" -> Num(v.n)
      [] v.t \in {"undefined", "NaN"} -> NaN

\* a >= b on such operands: false as soon as one of them is NaN.
JsGe(a, b) ==
    /\ ToNumber(a).t = "number"
    /\ ToNumber(b).t = "number"
    /\ NumGe(ToNumber(a), ToNumber(b))

Filters(category, minRating, type, contentRating, isPaid, genres) ==
    [category |-> category, minRating |-> minRating, type |-> type,
     contentRating |-> contentRating, isPaid |-> isPaid, genres |-> genres]

\* filterApps losing the first app that passed (mutant of filterApps).
filterApps_dropsFirst(appList, criteria) ==
    LET kept == SelectSeq(appList, LAMBDA a :
                    /\ Truthy(criteria.category) => StrictEq(a.category, criteria.category)
                    /\ Truthy(criteria.minRating) => JsGe(a.rating, criteria.minRating)
                    /\ Truthy(criteria.type) => StrictEq(a.type, criteria.type)
                    /\ Truthy(criteria.contentRating) =>
                          StrictEq(a.contentRating, criteria.contentRating)
                    /\ criteria.isPaid # Undefined => StrictEq(a.isPaid, criteria.isPaid))
    IN IF kept = <<>> THEN kept ELSE Tail(kept)

\* filterApps with an exclusive rating bound, > for >= (mutant of filterApps).
filterApps_exclusiveRating(appList, criteria) ==
    SelectSeq(appList, LAMBDA a :
        /\ Truthy(criteria.category) => StrictEq(a.category, criteria.category)
        /\ Truthy(criteria.minRating) =>
              (JsGe(a.rating, criteria.minRating) /\ ~JsGe(criteria.minRating, a.rating))
        /\ Truthy(criteria.type) => StrictEq(a.type, criteria.type)
        /\ Truthy(criteria.contentRating) =>
              StrictEq(a.contentRating, criteria.contentRating)
        /\ criteria.isPaid # Undefined => StrictEq(a.isPaid, criteria.isPaid))

filterApps(appList, criteria) ==
    LET copied == appList
        byCategory ==
            IF Truthy(criteria.category)
            THEN SelectSeq(copied, LAMBDA a : StrictEq(a.category, criteria.category))
            ELSE copied
        byRating ==
            IF Truthy(criteria.minRating)
            THEN SelectSeq(byCategory, LAMBDA a : JsGe(a.rating, criteria.minRating))
            ELSE byCategory
        byType ==
            IF Truthy(criteria.type)
            THEN SelectSeq(byRating, LAMBDA a : StrictEq(a.type, criteria.type))
            ELSE byRating
        byContentRating ==
            IF Truthy(criteria.contentRating)
            THEN SelectSeq(byType, LAMBDA a :
                     StrictEq(a.contentRating, criteria.contentRating))
            ELSE byType
        byPaid ==
            IF criteria.isPaid # Undefined
            THEN SelectSeq(byContentRating, LAMBDA a :
                     StrictEq(a.isPaid, criteria.isPaid))
            ELSE byContentRating
    IN byPaid

----------------------------------------------------------------------------
(* utils/dataProcessor.js: processAppsData and processReviewsData *)

\* A raw app row: the cells Papa.parse gives under the CSV's column names.
\* CurrentVer is the 'Current Ver' cell; Size, Genres, 'Last Updated' and
\* 'Android Ver' are read in the same way (cell?.trim()).
RawAppRow(name, category, rating, reviewCount, installCount, type, price, contentRating, currentVer) ==
    [App |-> name, Category |-> category, Rating |-> rating,
     Reviews |-> reviewCount, Installs |-> installCount, Type |-> type,
     Price |-> price, ContentRating |-> contentRating, CurrentVer |-> currentVer]

convertPriceToNumber(priceString) ==
    IF \/ ~Truthy(priceString)
       \/ StrictEq(priceString, Str(Free))
       \/ StrictEq(priceString, Str(ZeroText))
    THEN Num(0)
    ELSE Or(parseFloat(RemoveFirst(String(priceString), "$")), Num(0))

\* What a call returns: its value, or nothing when it threw.
Returned(value) == [threw |-> FALSE, value |-> value]
Threw == [threw |-> TRUE, value |-> <<>>]

\* The object that the map callback of processAppsData builds from one row.
AppOfRow(row) ==
    App(OptionalTrim(row.App),
        OptionalTrim(row.Category),
        Or(parseFloat(String(row.Rating)), Null),
        Or(parseInt(String(row.Reviews)), Num(0)),
        convertInstallsToNumber(row.Installs),
        OptionalTrim(row.Type),
        OptionalTrim(row.ContentRating),
        IF NumLt(Num(0), convertPriceToNumber(row.Price)) THEN True ELSE False)

\* The map callback throws on a row in which a cell it trims is no string.
AppRowThrows(row) ==
    \E cell \in {row.App, row.Category, row.CurrentVer, row.Installs, row.Type,
                 row.ContentRating} : ~Trimmable(cell)

\* rows is always an array here, so the Array.isArray guard does not throw.
\* The callback also computes sizeBytes, installsCategory, hasRating and
\* isPopular, which no function modelled here reads.
processAppsData(rows) ==
    LET present == SelectSeq(rows, LAMBDA row :
                       Truthy(row.App) /\ Truthy(row.Category))
    IN IF \E i \in 1..Len(present) : AppRowThrows(present[i]) THEN Threw
       ELSE Returned(SelectSeq([i \in 1..Len(present) |-> AppOfRow(present[i])],
                               LAMBDA a : Truthy(a.app) /\ Truthy(a.category)))

RawReviewRow(name, text, sentiment, polarity, subjectivity) ==
    [App |-> name, Translated_Review |-> text, Sentiment |-> sentiment,
     Sentiment_Polarity |-> polarity, Sentiment_Subjectivity |-> subjectivity]

Positive == <<"p", "o", "s", "i", "t", "i", "v", "e">>
Negative == <<"n", "e", "g", "a", "t", "i", "v", "e">>
Neutral  == <<"n", "e", "u", "t", "r", "a", "l">>
NanLabel == <<"n", "a", "n">>

Bool(b) == IF b THEN True ELSE False

\* The object that the map callback of processReviewsData builds from one row.
ReviewOfRow(row) ==
    [app |-> OptionalTrim(row.App),
     translatedReview |-> OptionalTrim(row.Translated_Review),
     sentiment |-> OptionalTrim(row.Sentiment),
     sentimentPolarity |-> Or(parseFloat(String(row.Sentiment_Polarity)), Num(0)),
     sentimentSubjectivity |->
        Or(parseFloat(String(row.Sentiment_Subjectivity)), Num(0)),
     isPositive |-> Bool(toLowerCase(row.Sentiment.s) = Positive),
     isNegative |-> Bool(toLowerCase(row.Sentiment.s) = Negative),
     isNeutral |-> Bool(toLowerCase(row.Sentiment.s) = Neutral)]

\* The map callback throws on a row in which a cell it trims or lower-cases
\* is no string.
ReviewRowThrows(row) ==
    \E cell \in {row.App, row.Translated_Review, row.Sentiment} : ~Trimmable(cell)

\* rows is always an array here, so the Array.isArray guard does not throw.
processReviewsData(rows) ==
    LET present == SelectSeq(rows, LAMBDA row :
                       /\ Truthy(row.App)
                       /\ Truthy(row.Sentiment)
                       /\ ~StrictEq(row.Sentiment, Str(NanLabel)))
    IN IF \E i \in 1..Len(present) : ReviewRowThrows(present[i]) THEN Threw
       ELSE Returned([i \in 1..Len(present) |-> ReviewOfRow(present[i])])

----------------------------------------------------------------------------
(* utils/dataProcessor.js: mergeAppsWithSentiment *)

RECURSIVE Gcd(_, _)
Gcd(a, b) == IF b = 0 THEN a ELSE Gcd(b, a % b)

\* The number p / q for q > 0, the result of a division.  It is a whole
\* number Num(k) when q divides p and else the fraction in lowest terms, with
\* n the numerator and d the denominator.
Ratio(p, q) ==
    LET g == Gcd(Abs(p), q)
    IN IF q \div g = 1 THEN Num(p \div g)
       ELSE [t |-> "ratio", s |-> <<>>, n |-> p \div g, d |-> q \div g]

\* ToBoolean of a number that may be a fraction.
TruthyNumber(v) == v.t \in {"number", "ratio"} /\ v.n # 0

\* The greatest number of decimals among the values of a field.
RECURSIVE MaxDecimals(_, _)
MaxDecimals(list, field) ==
    IF list = <<>> THEN 0
    ELSE LET rest == MaxDecimals(Tail(list), field)
         IN IF Head(list)[field].d > rest THEN Head(list)[field].d ELSE rest

\* lodash baseSum of a field, in units of 10^-decimals.
RECURSIVE baseSum(_, _, _)
baseSum(list, field, decimals) ==
    IF list = <<>> THEN 0
    ELSE Head(list)[field].n * Pow10(decimals - Head(list)[field].d)
         + baseSum(Tail(list), field, decimals)

\* _.meanBy(list, field): the sum over the length, NaN for an empty list.
meanBy(list, field) ==
    IF list = <<>> THEN NaN
    ELSE LET decimals == MaxDecimals(list, field)
         IN Ratio(baseSum(list, field, decimals), Pow10(decimals) * Len(list))

CountWhere(list, field) ==
    Cardinality({i \in 1..Len(list) : Truthy(list[i][field])})

SentimentData(total, positive, negative, neutral, positivePct, negativePct, neutralPct, avgPolarity, avgSubjectivity, score) ==
    [totalReviews |-> total, positiveCount |-> positive,
     negativeCount |-> negative, neutralCount |-> neutral,
     positivePercentage |-> positivePct, negativePercentage |-> negativePct,
     neutralPercentage |-> neutralPct, avgSentimentPolarity |-> avgPolarity,
     avgSentimentSubjectivity |-> avgSubjectivity, sentimentScore |-> score]

\* The callback of mapValues: the statistics of one app's reviews.
ReviewStatsOf(appReviews) ==
    LET total == Len(appReviews)
        positive == CountWhere(appReviews, "isPositive")
        negative == CountWhere(appReviews, "isNegative")
        neutral == CountWhere(appReviews, "isNeutral")
        meanPolarity == meanBy(appReviews, "sentimentPolarity")
        meanSubjectivity == meanBy(appReviews, "sentimentSubjectivity")
        avgPolarity == IF TruthyNumber(meanPolarity) THEN meanPolarity ELSE Num(0)
        avgSubjectivity ==
            IF TruthyNumber(meanSubjectivity) THEN meanSubjectivity ELSE Num(0)
    IN SentimentData(Num(total), Num(positive), Num(negative), Num(neutral),
                     Ratio(positive * 100, total), Ratio(negative * 100, total),
                     Ratio(neutral * 100, total), avgPolarity, avgSubjectivity,
                     avgPolarity)

\* The fallback object literal of mergeAppsWithSentiment.
ZeroSentimentData ==
    SentimentData(Num(0), Num(0), Num(0), Num(0), Num(0), Num(0), Num(0),
                  Num(0), Num(0), Num(0))

\* Property names every plain object inherits from Object.prototype.
ObjectPrototypeKeys ==
    {<<"c", "o", "n", "s", "t", "r", "u", "c", "t", "o", "r">>,
     <<"t", "o", "S", "t", "r", "i", "n", "g">>,
     <<"v", "a", "l", "u", "e", "O", "f">>,
     <<"_", "_", "p", "r", "o", "t", "o", "_", "_">>}

\* What reading the summary fields of an inherited member (a function such as
\* Object, or Object.prototype itself) gives: every field is undefined.
InheritedMember ==
    SentimentData(Undefined, Undefined, Undefined, Undefined, Undefined,
                  Undefined, Undefined, Undefined, Undefined, Undefined)

\* reviewStats[key] || { ...zeros }: reviewStats is a plain object, so a key
\* it does not own is looked up on Object.prototype, and what is found there
\* is truthy.
SentimentDataFor(reviewList, key) ==
    LET appReviews == SelectSeq(reviewList, LAMBDA r : String(r.app) = key)
    IN IF appReviews # <<>> THEN ReviewStatsOf(appReviews)
       ELSE IF key \in ObjectPrototypeKeys THEN InheritedMember
       ELSE ZeroSentimentData

mergeAppsWithSentiment(appList, reviewList) ==
    [i \in 1..Len(appList) |->
        [app |-> appList[i],
         sentimentData |-> SentimentDataFor(reviewList, String(appList[i].app))]]

----------------------------------------------------------------------------
(* Arithmetic of utils/statisticalAnalysis.js.  A number is a decimal       *)
(* n / 10^d (t = "number") or a fraction n / d in lowest terms              *)
(* (t = "ratio"); the square root of a number that has no whole root is     *)
(* kept as t = "sqrt", the root of n / d.  Arithmetic is exact: the         *)
(* rounding of the 64-bit floats is not modelled.                           *)

Denominator(v) == IF v.t = "ratio" THEN v.d ELSE Pow10(v.d)

RatLt(a, b) == a.n * Denominator(b) < b.n * Denominator(a)

RatSub(a, b) ==
    Ratio(a.n * Denominator(b) - b.n * Denominator(a), Denominator(a) * Denominator(b))

\* The results of a division that has no finite value.
PositiveInfinity == [t |-> "Infinity", s |-> <<>>, n |-> 1, d |-> 0]

\* p / q on two integers, q >= 0: NaN for 0 / 0 and Infinity for p / 0, p > 0.
Divide(p, q) ==
    IF q # 0 THEN Ratio(p, q)
    ELSE IF p = 0 THEN NaN
    ELSE PositiveInfinity

\* The greatest whole number between low and high whose square is at most p.
RECURSIVE RootBetween(_, _, _)
RootBetween(p, low, high) ==
    IF low >= high THEN low
    ELSE LET middle == (low + high + 1) \div 2
         IN IF middle * middle <= p THEN RootBetween(p, middle, high)
            ELSE RootBetween(p, low, middle - 1)

\* The whole part of the square root of a whole number below 2^31.
WholeRoot(p) == RootBetween(p, 0, IF p < 46340 THEN p ELSE 46340)

\* Math.sqrt and math.sqrt of a number that is not negative.
Sqrt(v) ==
    LET p == v.n
        q == Denominator(v)
    IN IF q = 1 /\ WholeRoot(p) * WholeRoot(p) = p THEN Num(WholeRoot(p))
       ELSE [t |-> "sqrt", s |-> <<>>, n |-> p, d |-> q]

\* An array of values.
Array(items) == [t |-> "array", s |-> items, n |-> 0, d |-> 0]

\* isNaN(v), which tests ToNumber(v), for a value that is no string.
isNaN(v) == ToNumber(v).t = "NaN"

\* The greatest number of decimals among the numbers of a list.
RECURSIVE Decimals(_)
Decimals(list) ==
    IF list = <<>> THEN 0
    ELSE LET rest == Decimals(Tail(list))
         IN IF Head(list).d > rest THEN Head(list).d ELSE rest

\* A number of at most k decimals in units of 10^-k.
Scaled(v, k) == v.n * Pow10(k - v.d)

\* The sum of a list of numbers, and of their squares, in units of 10^-k
\* and 10^-2k.
RECURSIVE ScaledSum(_, _)
ScaledSum(list, k) ==
    IF list = <<>> THEN 0 ELSE Scaled(Head(list), k) + ScaledSum(Tail(list), k)

RECURSIVE ScaledSquares(_, _)
ScaledSquares(list, k) ==
    IF list = <<>> THEN 0
    ELSE Scaled(Head(list), k) * Scaled(Head(list), k) + ScaledSquares(Tail(list), k)

\* _.sum of an array of numbers: 0 for the empty array.
sum(list) == Dec(ScaledSum(list, Decimals(list)), Decimals(list))

\* _.mean of an array of numbers: the sum over the length, NaN when empty.
mean(list) ==
    IF list = <<>> THEN NaN
    ELSE Ratio(ScaledSum(list, Decimals(list)), Pow10(Decimals(list)) * Len(list))

\* [...list].sort((a, b) => a - b): ascending, equal numbers in input order.
RECURSIVE SortAscending(_)
SortAscending(list) ==
    IF list = <<>> THEN <<>>
    ELSE LET front == SortAscending(SubSeq(list, 1, Len(list) - 1))
             last == list[Len(list)]
             before == Cardinality({i \in 1..Len(front) : ~RatLt(last, front[i])})
         IN SubSeq(front, 1, before) \o <<last>> \o SubSeq(front, before + 1, Len(front))

\* math.median of a non-empty array: the middle value of the sorted array,
\* the average of the two middle values for an even length.  math.median
\* throws 'Cannot calculate median of an empty array' on an empty array.
median(list) ==
    LET sorted == SortAscending(list)
        num == Len(list)
        k == Decimals(list)
    IN IF num % 2 = 0
       THEN Ratio(Scaled(sorted[num \div 2], k) + Scaled(sorted[num \div 2 + 1], k),
                  2 * Pow10(k))
       ELSE sorted[(num + 1) \div 2]

\* math.mode: the values that occur most often, in the order in which the
\* scan from the left sees each of them reach the greatest count.
RECURSIVE ModeScan(_)
ModeScan(list) ==
    IF list = <<>> THEN [mode |-> <<>>, max |-> 0]
    ELSE LET acc == ModeScan(SubSeq(list, 1, Len(list) - 1))
             value == list[Len(list)]
             count == Cardinality({i \in 1..Len(list) : list[i] = value})
         IN IF count = acc.max THEN [mode |-> Append(acc.mode, value), max |-> acc.max]
            ELSE IF count > acc.max THEN [mode |-> <<value>>, max |-> count]
            ELSE acc

mode(list) == Array(ModeScan(list).mode)

\* Math.min(...list) and Math.max(...list) of a non-empty list of numbers.
Min(list) == list[CHOOSE i \in 1..Len(list) : \A j \in 1..Len(list) : ~RatLt(list[j], list[i])]
Max(list) == list[CHOOSE i \in 1..Len(list) : \A j \in 1..Len(list) : ~RatLt(list[i], list[j])]

\* math.var, the unbiased variance: 0 for one value, else the sum of the
\* squared distances to the mean over num - 1.
variance(list) ==
    LET num == Len(list)
        k == Decimals(list)
        total == ScaledSum(list, k)
    IN IF num = 1 THEN Num(0)
       ELSE Ratio(num * ScaledSquares(list, k) - total * total,
                  num * (num - 1) * Pow10(2 * k))

\* math.std: the square root of math.var.
std(list) == Sqrt(variance(list))

\* math.quantileSeq(sorted, quarters / 4) of a sorted non-empty array: the
\* value at index prob * (n - 1), interpolated between its two neighbours
\* when the index is not whole.
quantileSeq(sorted, quarters) ==
    LET index4 == quarters * (Len(sorted) - 1)
        integerPart == index4 \div 4
        fracPart4 == index4 % 4
        k == Decimals(sorted)
    IN IF fracPart4 = 0 THEN sorted[integerPart + 1]
       ELSE Ratio(Scaled(sorted[integerPart + 1], k) * (4 - fracPart4)
                    + Scaled(sorted[integerPart + 2], k) * fracPart4,
                  4 * Pow10(k))

----------------------------------------------------------------------------
(* utils/statisticalAnalysis.js: calculateBasicStats *)

BasicStats(count, meanValue, medianValue, modeValue, minValue, maxValue, stdValue, varianceValue, q1, q3, iqr) ==
    [count |-> count, mean |-> meanValue, median |-> medianValue,
     mode |-> modeValue, min |-> minValue, max |-> maxValue, std |-> stdValue,
     variance |-> varianceValue, q1 |-> q1, q3 |-> q3, iqr |-> iqr]

\* The object literal returned for an empty cleanValues.
ZeroStats ==
    BasicStats(Num(0), Num(0), Num(0), Null, Num(0), Num(0), Num(0), Num(0),
               Num(0), Num(0), Num(0))

\* cleanValues keeping NaN, without the isNaN test (mutant of cleanValues).
cleanValues_keepsNaN(list) ==
    SelectSeq(list, LAMBDA v : v # Null /\ v # Undefined)

\* values.filter(v => v !== null && v !== undefined && !isNaN(v))
cleanValues(list) ==
    SelectSeq(list, LAMBDA v : v # Null /\ v # Undefined /\ ~isNaN(v))

\* For lists of numbers, null, undefined and NaN no call in the body throws.
calculateBasicStats(list) ==
    LET clean == cleanValues(list)
        sorted == SortAscending(clean)
    IN IF Len(clean) = 0 THEN ZeroStats
       ELSE BasicStats(Num(Len(clean)), mean(clean), median(clean), mode(clean),
                       Min(clean), Max(clean), std(clean), variance(clean),
                       quantileSeq(sorted, 1), quantileSeq(sorted, 3),
                       RatSub(quantileSeq(sorted, 3), quantileSeq(sorted, 1)))

----------------------------------------------------------------------------
(* utils/statisticalAnalysis.js: calculateCorrelation *)

NegativeInfinity == [t |-> "Infinity", s |-> <<>>, n |-> -1, d |-> 0]

\* The sum of the products x[i] * y[i], in units of 10^-(kx + ky).
RECURSIVE ScaledProducts(_, _, _, _)
ScaledProducts(x, y, kx, ky) ==
    IF x = <<>> THEN 0
    ELSE Scaled(Head(x), kx) * Scaled(Head(y), ky)
         + ScaledProducts(Tail(x), Tail(y), kx, ky)

\* math.corr(A, B) of two arrays of numbers of one length: the quotient of
\*   n * sumXY - sumX * sumY   and
\*   sqrt((n * sumXSquare - sumX^2) * (n * sumYSquare - sumY^2)),
\* which is 0 / 0 = NaN when a series is constant.  A quotient by a root that
\* is not whole is kept as t = "overSqrt", n over the root of d.
corr(A, B) ==
    LET num == Len(A)
        kx == Decimals(A)
        ky == Decimals(B)
        sumX == ScaledSum(A, kx)
        sumY == ScaledSum(B, ky)
        sumXY == ScaledProducts(A, B, kx, ky)
        numerator == num * sumXY - sumX * sumY
        underRoot == (num * ScaledSquares(A, kx) - sumX * sumX)
                       * (num * ScaledSquares(B, ky) - sumY * sumY)
        denominator == Sqrt(Num(underRoot))
    IN IF underRoot = 0
       THEN (IF numerator = 0 THEN NaN
             ELSE IF numerator > 0 THEN PositiveInfinity ELSE NegativeInfinity)
       ELSE IF denominator.t = "number" THEN Ratio(numerator, denominator.n)
       ELSE [t |-> "overSqrt", s |-> <<>>, n |-> numerator, d |-> underRoot]

\* The pairs [xi, yi] that the filter of lines 306-309 keeps, as indexes.
ValidPairs(x, y) ==
    {i \in 1..Len(x) :
        /\ x[i] # Null /\ x[i] # Undefined /\ ~isNaN(x[i])
        /\ y[i] # Null /\ y[i] # Undefined /\ ~isNaN(y[i])}

\* The members of a list at the indexes of a set, in list order.
RECURSIVE Pick(_, _)
Pick(list, indexes) ==
    IF list = <<>> THEN <<>>
    ELSE Pick(SubSeq(list, 1, Len(list) - 1), indexes)
         \o (IF Len(list) \in indexes THEN <<list[Len(list)]>> ELSE <<>>)

\* calculateCorrelation returning what math.corr gives, without the isNaN
\* test of line 320 (mutant of calculateCorrelation).
calculateCorrelation_unguarded(x, y) ==
    IF Len(x) # Len(y) \/ Len(x) = 0 THEN Num(0)
    ELSE IF Cardinality(ValidPairs(x, y)) < 2 THEN Num(0)
    ELSE corr(Pick(x, ValidPairs(x, y)), Pick(y, ValidPairs(x, y)))

\* math.corr does not throw on two arrays of numbers of one length, so the
\* catch block of lines 321-324, which also returns 0, is not entered.
calculateCorrelation(x, y) ==
    IF Len(x) # Len(y) \/ Len(x) = 0 THEN Num(0)
    ELSE LET pairs == ValidPairs(x, y)
             xClean == Pick(x, pairs)
             yClean == Pick(y, pairs)
             correlationValue == corr(xClean, yClean)
         IN IF Cardinality(pairs) < 2 THEN Num(0)
            ELSE IF correlationValue.t = "NaN" THEN Num(0)
            ELSE correlationValue

----------------------------------------------------------------------------
(* utils/statisticalAnalysis.js: calculateFrequencyAnalysis *)

\* list.sort((a, b) => b[field] - a[field]) on a number field: descending,
\* entries with equal values in their order in the list.
RECURSIVE SortDescendingBy(_, _)
SortDescendingBy(list, field) ==
    IF list = <<>> THEN <<>>
    ELSE LET front == SortDescendingBy(SubSeq(list, 1, Len(list) - 1), field)
             last == list[Len(list)]
             before == Cardinality({i \in 1..Len(front) : ~RatLt(front[i][field], last[field])})
         IN SubSeq(front, 1, before) \o <<last>> \o SubSeq(front, before + 1, Len(front))

\* list.slice(0, end) for end >= 0
Slice(list, end) == SubSeq(list, 1, IF end < Len(list) THEN end ELSE Len(list))

\* values.filter(v => v !== null && v !== undefined && v !== '')
frequencyCleanValues(list) ==
    SelectSeq(list, LAMBDA v : v # Null /\ v # Undefined /\ v # Str(<<>>))

\* Object.entries(_.countBy(list)): _.countBy creates one property per
\* distinct String(value), in order of first occurrence, and Object.entries
\* lists them in own-property order.
countBy(list) ==
    LET keyOf == [i \in 1..Len(list) |-> String(list[i])]
        keys == OwnKeys(InsertionOrder(keyOf))
    IN [i \in 1..Len(keys) |->
          [key |-> keys[i],
           count |-> Cardinality({j \in 1..Len(list) : keyOf[j] = keys[i]})]]

\* topN = 10 when the argument is undefined.
calculateFrequencyAnalysis(list, limit) ==
    LET clean == frequencyCleanValues(list)
        total == Len(clean)
        frequencies == countBy(clean)
        entries == [i \in 1..Len(frequencies) |->
                      [value |-> Str(frequencies[i].key),
                       count |-> Num(frequencies[i].count),
                       percentage |-> Ratio(frequencies[i].count * 100, total)]]
    IN IF total = 0 THEN <<>>
       ELSE Slice(SortDescendingBy(entries, "count"),
                  IF limit = Undefined THEN 10 ELSE limit.n)

----------------------------------------------------------------------------
(* utils/statisticalAnalysis.js: analyzeCategoryPerformance *)

\* The fields of a processed app that the statistics read.  parsedRating is
\* parseFloat(app.Rating), installCount is convertInstallsToNumber(app.Installs)
\* and price is convertPriceToNumber(app.Price).
ProcessedApp(category, parsedRating, reviewCount, installCount, price, size) ==
    [category |-> category,
     rating |-> Or(parsedRating, Null),
     reviews |-> reviewCount,
     installsNumber |-> installCount,
     priceNumber |-> price,
     sizeBytes |-> size,
     isPaid |-> Bool(NumLt(Num(0), price)),
     hasRating |-> IF Truthy(parsedRating) THEN Bool(NumLt(Num(0), parsedRating))
                   ELSE parsedRating,
     isPopular |-> Bool(NumGe(installCount, Num(1000000)))]

\* A call that threw an error with a message, the sequence of the pieces of
\* its text.
ThrewError(message) == [threw |-> TRUE, value |-> <<>>, message |-> message]

\* The message of the Error that math.median throws.
MedianOfEmptyArray == <<"Cannot calculate median of an empty array">>

\* v || 0 on a number, a fraction or NaN.
OrZero(v) == IF TruthyNumber(v) THEN v ELSE Num(0)

\* The values of one field of a list of records.
Field(list, field) == [i \in 1..Len(list) |-> list[i][field]]

\* Object.entries(_.groupBy(apps, 'category')): one entry per distinct
\* String(category), in own-property order, with its apps in input order.
groupByCategory(appList) ==
    LET keyOf == [i \in 1..Len(appList) |-> String(appList[i].category)]
        keys == OwnKeys(InsertionOrder(keyOf))
    IN [i \in 1..Len(keys) |->
          [category |-> keys[i],
           categoryApps |-> Pick(appList, {j \in 1..Len(appList) : keyOf[j] = keys[i]})]]

\* categoryApps.map(app => app.rating).filter(r => r && !isNaN(r))
ValidRatings(categoryApps) ==
    SelectSeq(Field(categoryApps, "rating"), LAMBDA r : Truthy(r) /\ ~isNaN(r))

CategoryEntry(category, appCount, avgRating, medianRating, totalInstalls, avgInstalls, totalReviews, avgReviews, paidAppsCount, popularAppsCount, ratingStats) ==
    [category |-> category, appCount |-> appCount, avgRating |-> avgRating,
     medianRating |-> medianRating, totalInstalls |-> totalInstalls,
     avgInstalls |-> avgInstalls, totalReviews |-> totalReviews,
     avgReviews |-> avgReviews, paidAppsCount |-> paidAppsCount,
     popularAppsCount |-> popularAppsCount, ratingStats |-> ratingStats]

\* The object that the map callback builds for one group whose list of valid
\* ratings is not empty.
CategoryEntryOf(group) ==
    LET categoryApps == group.categoryApps
        ratingList == ValidRatings(categoryApps)
        installs == Field(categoryApps, "installsNumber")
        reviewCounts == Field(categoryApps, "reviews")
    IN CategoryEntry(Str(group.category),
                     Num(Len(categoryApps)),
                     OrZero(mean(ratingList)),
                     OrZero(median(ratingList)),
                     sum(installs),
                     OrZero(mean(installs)),
                     sum(reviewCounts),
                     OrZero(mean(reviewCounts)),
                     Num(CountWhere(categoryApps, "isPaid")),
                     Num(CountWhere(categoryApps, "isPopular")),
                     calculateBasicStats(ratingList))

\* math.median(ratings) of line 401 throws on a group without a valid
\* rating, which ends the map and the call.
analyzeCategoryPerformance(appList) ==
    LET categoryGroups == groupByCategory(appList)
    IN IF \E i \in 1..Len(categoryGroups) :
             ValidRatings(categoryGroups[i].categoryApps) = <<>>
       THEN ThrewError(MedianOfEmptyArray)
       ELSE Returned(SortDescendingBy(
                [i \in 1..Len(categoryGroups) |-> CategoryEntryOf(categoryGroups[i])],
                "appCount"))

----------------------------------------------------------------------------
(* utils/statisticalAnalysis.js: analyzeRatingDistribution, identifyOutliers, *)
(* calculateMarketShare                                                       *)

\* (p / q) * 100 on two counts: NaN for 0 / 0, Infinity for p / 0.
Percent(p, q) ==
    IF Divide(p, q).t \in {"NaN", "Infinity"} THEN Divide(p, q)
    ELSE Ratio(p * 100, q)

\* a < b on numbers, null, undefined, NaN and booleans.
JsLt(a, b) ==
    /\ ToNumber(a).t = "number"
    /\ ToNumber(b).t = "number"
    /\ NumLt(ToNumber(a), ToNumber(b))

\* The keys of the distribution object, with the bounds of their tests.
RatingBuckets == <<
    [label |-> "1.0-1.9", min |-> Num(1),     max |-> Num(2),     closed |-> FALSE],
    [label |-> "2.0-2.9", min |-> Num(2),     max |-> Num(3),     closed |-> FALSE],
    [label |-> "3.0-3.9", min |-> Num(3),     max |-> Num(4),     closed |-> FALSE],
    [label |-> "4.0-4.4", min |-> Num(4),     max |-> Dec(45, 1), closed |-> FALSE],
    [label |-> "4.5-5.0", min |-> Dec(45, 1), max |-> Num(5),     closed |-> TRUE] >>

\* The test of one key: r >= min && r < max, r <= max for the last key.
InBucket(r, bucket) ==
    /\ NumGe(r, bucket.min)
    /\ IF bucket.closed THEN NumGe(bucket.max, r) ELSE NumLt(r, bucket.max)

\* ratings.filter(r => r !== null && !isNaN(r) && r > 0)
cleanRatings(list) ==
    SelectSeq(list, LAMBDA r : r # Null /\ ~isNaN(r) /\ JsLt(Num(0), r))

\* The distribution is an object: a function of its keys, of no key at all
\* when there is no clean rating.
analyzeRatingDistribution(list) ==
    LET clean == cleanRatings(list)
    IN IF Len(clean) = 0
       THEN [total |-> Num(0), distribution |-> <<>>, stats |-> calculateBasicStats(<<>>)]
       ELSE [total |-> Num(Len(clean)),
             distribution |->
                [label \in {RatingBuckets[b].label : b \in 1..Len(RatingBuckets)} |->
                    LET bucket == RatingBuckets[CHOOSE b \in 1..Len(RatingBuckets) :
                                                  RatingBuckets[b].label = label]
                    IN Num(Cardinality({i \in 1..Len(clean) : InBucket(clean[i], bucket)}))],
             stats |-> calculateBasicStats(clean)]

\* a + b and a * p / q on numbers and fractions.
RatAdd(a, b) ==
    Ratio(a.n * Denominator(b) + b.n * Denominator(a), Denominator(a) * Denominator(b))

RatScale(a, p, q) == Ratio(a.n * p, Denominator(a) * q)

\* The struct of identifyOutliers; outlierPercentage is left out (undefined)
\* of the one for fewer than 4 values.
OutlierAnalysis(outliers, lowerBound, upperBound, outlierCount, outlierPercentage) ==
    [outliers |-> outliers, lowerBound |-> lowerBound, upperBound |-> upperBound,
     outlierCount |-> outlierCount, outlierPercentage |-> outlierPercentage]

identifyOutliers(list) ==
    LET clean == SelectSeq(list, LAMBDA v : v # Null /\ ~isNaN(v))
        stats == calculateBasicStats(clean)
        lowerBound == RatSub(stats.q1, RatScale(stats.iqr, 3, 2))
        upperBound == RatAdd(stats.q3, RatScale(stats.iqr, 3, 2))
        outliers == SelectSeq(clean, LAMBDA v : RatLt(v, lowerBound) \/ RatLt(upperBound, v))
    IN IF Len(clean) < 4
       THEN OutlierAnalysis(<<>>, Num(0), Num(0), Num(0), Undefined)
       ELSE OutlierAnalysis(outliers, lowerBound, upperBound, Num(Len(outliers)),
                            Percent(Len(outliers), Len(clean)))

\* { ...cat, appMarketShare, installMarketShare }
MarketShareEntry(cat, appMarketShare, installMarketShare) ==
    [category |-> cat.category, appCount |-> cat.appCount,
     avgRating |-> cat.avgRating, medianRating |-> cat.medianRating,
     totalInstalls |-> cat.totalInstalls, avgInstalls |-> cat.avgInstalls,
     totalReviews |-> cat.totalReviews, avgReviews |-> cat.avgReviews,
     paidAppsCount |-> cat.paidAppsCount, popularAppsCount |-> cat.popularAppsCount,
     ratingStats |-> cat.ratingStats,
     appMarketShare |-> appMarketShare, installMarketShare |-> installMarketShare]

\* What analyzeCategoryPerformance throws passes through calculateMarketShare.
calculateMarketShare(appList) ==
    LET totalApps == Len(appList)
        totalInstalls == sum(Field(appList, "installsNumber"))
        categoryStats == analyzeCategoryPerformance(appList)
    IN IF categoryStats.threw THEN categoryStats
       ELSE Returned(
              [totalApps |-> Num(totalApps),
               totalInstalls |-> totalInstalls,
               categoryBreakdown |->
                  [i \in 1..Len(categoryStats.value) |->
                      MarketShareEntry(categoryStats.value[i],
                          Percent(categoryStats.value[i].appCount.n, totalApps),
                          Percent(categoryStats.value[i].totalInstalls.n,
                                  totalInstalls.n))]])

----------------------------------------------------------------------------
(* utils/analytics.js: generateOverviewAnalytics, generateRatingAnalytics,   *)
(* generateSentimentAnalytics                                                *)

\* apps.filter(app => app.rating).map(app => app.rating)
TruthyRatings(appList) ==
    Field(SelectSeq(appList, LAMBDA a : Truthy(a.rating)), "rating")

OverviewAnalytics(totalApps, appsWithRatings, paidApps, freeApps, popularApps, totalInstalls, totalReviews, avgRating, ratingsPercentage, paidAppsPercentage, popularAppsPercentage) ==
    [totalApps |-> totalApps, appsWithRatings |-> appsWithRatings,
     paidApps |-> paidApps, freeApps |-> freeApps, popularApps |-> popularApps,
     totalInstalls |-> totalInstalls, totalReviews |-> totalReviews,
     avgRating |-> avgRating, ratingsPercentage |-> ratingsPercentage,
     paidAppsPercentage |-> paidAppsPercentage,
     popularAppsPercentage |-> popularAppsPercentage]

generateOverviewAnalytics(appList) ==
    LET totalApps == Len(appList)
        appsWithRatings == CountWhere(appList, "hasRating")
        paidApps == CountWhere(appList, "isPaid")
        popularApps == CountWhere(appList, "isPopular")
    IN OverviewAnalytics(Num(totalApps), Num(appsWithRatings), Num(paidApps),
                         Num(totalApps - paidApps), Num(popularApps),
                         sum(Field(appList, "installsNumber")),
                         sum(Field(appList, "reviews")),
                         OrZero(mean(TruthyRatings(appList))),
                         Percent(appsWithRatings, totalApps),
                         Percent(paidApps, totalApps),
                         Percent(popularApps, totalApps))

\* list.sort((a, b) => a[field] - b[field]) on a number field: ascending,
\* entries with equal values in their order in the list.
RECURSIVE SortAscendingBy(_, _)
SortAscendingBy(list, field) ==
    IF list = <<>> THEN <<>>
    ELSE LET front == SortAscendingBy(SubSeq(list, 1, Len(list) - 1), field)
             last == list[Len(list)]
             before == Cardinality({i \in 1..Len(front) : ~RatLt(last[field], front[i][field])})
         IN SubSeq(front, 1, before) \o <<last>> \o SubSeq(front, before + 1, Len(front))

generateRatingAnalytics(appList) ==
    LET ratingList == TruthyRatings(appList)
        topRatedApps ==
            Slice(SortDescendingBy(
                    SelectSeq(appList, LAMBDA a : JsGe(a.rating, Dec(45, 1))), "rating"), 10)
        poorlyRatedApps ==
            Slice(SortAscendingBy(
                    SelectSeq(appList, LAMBDA a :
                        JsLt(a.rating, Num(3)) /\ JsLt(Num(0), a.rating)), "rating"), 10)
    IN [ratingDistribution |-> analyzeRatingDistribution(ratingList),
        ratingStats |-> calculateBasicStats(ratingList),
        ratingOutliers |-> identifyOutliers(ratingList),
        topRatedApps |-> topRatedApps,
        poorlyRatedApps |-> poorlyRatedApps,
        highRatedPercentage |->
            Percent(Len(SelectSeq(appList, LAMBDA a : JsGe(a.rating, Num(4)))),
                    Len(ratingList))]

generateSentimentAnalytics(reviewList) ==
    LET positive == CountWhere(reviewList, "isPositive")
        negative == CountWhere(reviewList, "isNegative")
        neutral == CountWhere(reviewList, "isNeutral")
        total == Len(reviewList)
    IN [totalReviews |-> Num(total),
        sentimentCounts |-> [positive |-> Num(positive), negative |-> Num(negative),
                             neutral |-> Num(neutral)],
        sentimentPercentages |-> [positive |-> Percent(positive, total),
                                  negative |-> Percent(negative, total),
                                  neutral |-> Percent(neutral, total)],
        polarityStats |->
            calculateBasicStats(SelectSeq(Field(reviewList, "sentimentPolarity"),
                                          LAMBDA p : ~isNaN(p))),
        subjectivityStats |->
            calculateBasicStats(SelectSeq(Field(reviewList, "sentimentSubjectivity"),
                                          LAMBDA p : ~isNaN(p)))]

----------------------------------------------------------------------------
(* utils/analytics.js: generateCategoryAnalytics, generateCorrelationAnalytics, *)
(* generateInsights, generateAnalytics                                          *)

\* The messages of the TypeError of line 201 and of the Error of line 33.
CategoryOfUndefined == <<"Cannot read properties of undefined (reading 'category')">>
AnalyticsGenerationFailed == <<"Analytics generation failed: ">>

\* What analyzeCategoryPerformance throws passes through.
generateCategoryAnalytics(appList) ==
    LET categoryPerformanceResult == analyzeCategoryPerformance(appList)
        marketShareResult == calculateMarketShare(appList)
        categories == Field(appList, "category")
    IN IF categoryPerformanceResult.threw THEN categoryPerformanceResult
       ELSE Returned(
              [categoryPerformance |-> categoryPerformanceResult.value,
               marketShare |-> marketShareResult.value,
               topCategories |-> calculateFrequencyAnalysis(categories, Num(10)),
               totalCategories |->
                  Num(Cardinality({categories[i] : i \in 1..Len(categories)}))])

generateCorrelationAnalytics(appList) ==
    LET appsWithAllData ==
            SelectSeq(appList, LAMBDA a :
                /\ Truthy(a.rating) /\ Truthy(a.reviews) /\ Truthy(a.installsNumber)
                /\ ~isNaN(a.priceNumber))
        ratingList == Field(appsWithAllData, "rating")
        reviewCounts == Field(appsWithAllData, "reviews")
        installs == Field(appsWithAllData, "installsNumber")
        prices == Field(appsWithAllData, "priceNumber")
        sized == SelectSeq(appsWithAllData, LAMBDA a : a.sizeBytes # Null)
    IN [ratingVsReviews |-> calculateCorrelation(ratingList, reviewCounts),
        ratingVsInstalls |-> calculateCorrelation(ratingList, installs),
        reviewsVsInstalls |-> calculateCorrelation(reviewCounts, installs),
        sizeVsInstalls |-> calculateCorrelation(Field(sized, "sizeBytes"),
                                                Field(sized, "installsNumber")),
        priceVsRating |-> calculateCorrelation(prices, ratingList),
        priceVsInstalls |-> calculateCorrelation(prices, installs)]

\* One entry of insights.  Its description, a text that shows the metric
\* with toFixed, is not kept.
Insight(type, title, metric) == [type |-> type, title |-> title, metric |-> metric]

\* The entries of recommendations, without their description.
Recommendations(categoryPerformanceList) ==
    LET topCategory == categoryPerformanceList[1]
        lowPerformingCategories ==
            Slice(SelectSeq(categoryPerformanceList,
                            LAMBDA cat : RatLt(cat.avgRating, Dec(35, 1))), 3)
    IN (IF RatLt(topCategory.avgRating, Num(4))
        THEN <<[type |-> "quality", title |-> "Improve App Quality",
                categories |-> <<topCategory.category>>]>>
        ELSE <<>>)
       \o (IF Len(lowPerformingCategories) > 0
           THEN <<[type |-> "opportunity", title |-> "Market Opportunities",
                   categories |-> Field(lowPerformingCategories, "category")]>>
           ELSE <<>>)

\* categoryPerformance[0] is undefined for an empty app list, and reading
\* its category at line 201 throws a TypeError.
generateInsights(appList, reviewList) ==
    LET categoryPerformanceResult == analyzeCategoryPerformance(appList)
        topCategory == categoryPerformanceResult.value[1]
        highRatedApps == Len(SelectSeq(appList, LAMBDA a : JsGe(a.rating, Dec(45, 1))))
        ratingPercentage == Percent(highRatedApps, Len(TruthyRatings(appList)))
        popularityRate == Percent(CountWhere(appList, "isPopular"), Len(appList))
        positivePercentage ==
            Percent(CountWhere(reviewList, "isPositive"), Len(reviewList))
    IN IF categoryPerformanceResult.threw THEN categoryPerformanceResult
       ELSE IF categoryPerformanceResult.value = <<>> THEN ThrewError(CategoryOfUndefined)
       ELSE Returned(
              [insights |->
                  <<Insight("category", "Dominant Category", topCategory.appCount),
                    Insight("rating", "Quality Distribution", ratingPercentage),
                    Insight("installs", "Popular Apps", popularityRate)>>
                  \o (IF Len(reviewList) > 0
                      THEN <<Insight("sentiment", "User Sentiment", positivePercentage)>>
                      ELSE <<>>),
               recommendations |-> Recommendations(categoryPerformanceResult.value),
               keyMetrics |->
                  [totalApps |-> Num(Len(appList)),
                   avgRating |-> mean(TruthyRatings(appList)),
                   totalInstalls |-> sum(Field(appList, "installsNumber")),
                   topCategory |-> topCategory.category]])

\* generateAnalytics throwing again what it caught, as it is (mutant of
\* generateAnalytics).
generateAnalytics_rethrows(appList, reviewList, now) ==
    LET categories == generateCategoryAnalytics(appList)
        insights == generateInsights(appList, reviewList)
    IN IF categories.threw THEN categories
       ELSE IF insights.threw THEN insights
       ELSE Returned(
              [overview |-> generateOverviewAnalytics(appList),
               categories |-> categories.value,
               ratings |-> generateRatingAnalytics(appList),
               sentiment |-> generateSentimentAnalytics(reviewList),
               correlations |-> generateCorrelationAnalytics(appList),
               insights |-> insights.value,
               generatedAt |-> now])

\* The six computations run in the order of the object literal; the first
\* that throws ends the try block, and the catch block throws a new Error
\* whose message is `Analytics generation failed: ${error.message}`.  now is
\* new Date().toISOString().
generateAnalytics(appList, reviewList, now) ==
    LET categories == generateCategoryAnalytics(appList)
        insights == generateInsights(appList, reviewList)
    IN IF categories.threw
       THEN ThrewError(AnalyticsGenerationFailed \o categories.message)
       ELSE IF insights.threw
       THEN ThrewError(AnalyticsGenerationFailed \o insights.message)
       ELSE Returned(
              [overview |-> generateOverviewAnalytics(appList),
               categories |-> categories.value,
               ratings |-> generateRatingAnalytics(appList),
               sentiment |-> generateSentimentAnalytics(reviewList),
               correlations |-> generateCorrelationAnalytics(appList),
               insights |-> insights.value,
               generatedAt |-> now])

----------------------------------------------------------------------------
(* utils/dataProcessor.js: convertSizeToBytes *)

VariesWithDevice ==
    <<"V", "a", "r", "i", "e", "s", " ", "w", "i", "t", "h", " ",
      "d", "e", "v", "i", "c", "e">>

\* str.includes(c) for one character c
Includes(str, c) == \E i \in 1..Len(str) : str[i] = c

\* v * k for a whole factor k: NaN for NaN, else the exact product, with the
\* common factors taken out before the multiplication.
Times(v, k) ==
    IF v.t = "NaN" THEN NaN
    ELSE LET g1 == Gcd(Abs(v.n), Denominator(v))
             n1 == v.n \div g1
             q1 == Denominator(v) \div g1
             g2 == Gcd(k, q1)
         IN Ratio(n1 * (k \div g2), q1 \div g2)

\* convertSizeToBytes with decimal units (1000 per step) in place of 1024.
convertSizeToBytes_decimalUnits(sizeString) ==
    IF ~Truthy(sizeString) \/ StrictEq(sizeString, Str(VariesWithDevice)) THEN Null
    ELSE LET sizeStr == toLowerCase(String(sizeString))
             numericValue == parseFloat(sizeStr)
         IN IF Includes(sizeStr, "k") THEN Times(numericValue, 1000)
            ELSE IF Includes(sizeStr, "m") THEN Times(Times(numericValue, 1000), 1000)
            ELSE IF Includes(sizeStr, "g")
            THEN Times(Times(Times(numericValue, 1000), 1000), 1000)
            ELSE numericValue

convertSizeToBytes(sizeString) ==
    IF ~Truthy(sizeString) \/ StrictEq(sizeString, Str(VariesWithDevice)) THEN Null
    ELSE LET sizeStr == toLowerCase(String(sizeString))
             numericValue == parseFloat(sizeStr)
         IN IF Includes(sizeStr, "k") THEN Times(numericValue, 1024)
            ELSE IF Includes(sizeStr, "m") THEN Times(Times(numericValue, 1024), 1024)
            ELSE IF Includes(sizeStr, "g")
            THEN Times(Times(Times(numericValue, 1024), 1024), 1024)
            ELSE numericValue

----------------------------------------------------------------------------
(* utils/analytics.js: generateChartData *)

\* The ratingBins array, with count 0 in every bin.
RatingBins == <<
    [range |-> "1.0-2.0", min |-> Num(1),     max |-> Num(2)],
    [range |-> "2.0-3.0", min |-> Num(2),     max |-> Num(3)],
    [range |-> "3.0-4.0", min |-> Num(3),     max |-> Num(4)],
    [range |-> "4.0-4.5", min |-> Num(4),     max |-> Dec(45, 1)],
    [range |-> "4.5-5.0", min |-> Dec(45, 1), max |-> Num(5)] >>

\* ratingBins.find(b => rating >= b.min && rating < b.max) ||
\* ratingBins.find(b => rating >= b.min && rating <= b.max):
\* the index of the bin found, 0 when both searches find none.
FindBin(rating) ==
    LET halfOpen == {b \in 1..Len(RatingBins) :
                        JsGe(rating, RatingBins[b].min) /\ JsLt(rating, RatingBins[b].max)}
        closed == {b \in 1..Len(RatingBins) :
                        JsGe(rating, RatingBins[b].min) /\ JsGe(RatingBins[b].max, rating)}
    IN IF halfOpen # {} THEN CHOOSE b \in halfOpen : \A c \in halfOpen : b <= c
       ELSE IF closed # {} THEN CHOOSE b \in closed : \A c \in closed : b <= c
       ELSE 0

\* app.installsCategory: processAppsData sets it to categorizeInstalls of the
\* number that it stores as installsNumber.  The label is a text of one piece.
InstallsCategoryOf(app) == Str(<<categorizeInstalls(app.installsNumber)>>)

\* What analyzeCategoryPerformance throws ends the call.
generateChartData(appList) ==
    LET categoryData ==
            LET items == calculateFrequencyAnalysis(Field(appList, "category"), Num(10))
            IN [i \in 1..Len(items) |->
                  [name |-> items[i].value, value |-> items[i].count,
                   percentage |-> items[i].percentage]]
        rated == SelectSeq(appList, LAMBDA a : Truthy(a.rating))
        ratingDistributionData ==
            [b \in 1..Len(RatingBins) |->
                [range |-> RatingBins[b].range,
                 count |-> Num(Cardinality({i \in 1..Len(rated) :
                                               FindBin(rated[i].rating) = b}))]]
        installData ==
            LET items == calculateFrequencyAnalysis(
                             [i \in 1..Len(appList) |-> InstallsCategoryOf(appList[i])],
                             Undefined)
            IN [i \in 1..Len(items) |->
                  [category |-> items[i].value, count |-> items[i].count]]
        priceRated == SelectSeq(appList, LAMBDA a :
                          Truthy(a.rating) /\ a.priceNumber # Undefined)
        priceRatingData ==
            [i \in 1..Len(priceRated) |->
                [price |-> priceRated[i].priceNumber, rating |-> priceRated[i].rating,
                 installs |-> priceRated[i].installsNumber,
                 category |-> priceRated[i].category]]
        performance == analyzeCategoryPerformance(appList)
        top == Slice(performance.value, 10)
    IN IF performance.threw THEN performance
       ELSE Returned(
              [categoryDistribution |-> categoryData,
               ratingDistribution |-> ratingDistributionData,
               installDistribution |-> installData,
               priceVsRating |-> priceRatingData,
               categoryPerformance |->
                  [i \in 1..Len(top) |->
                      [category |-> top[i].category, avgRating |-> top[i].avgRating,
                       appCount |-> top[i].appCount,
                       totalInstalls |-> top[i].totalInstalls]]])

----------------------------------------------------------------------------
(* utils/csvLoader.js: loadAllData, validateDataQuality *)

\* A promise: pending, fulfilled with a value or rejected with the message
\* of its error.
Pending == [status |-> "pending", value |-> <<>>, reason |-> Str(<<>>)]
Fulfilled(value) == [status |-> "fulfilled", value |-> value, reason |-> Str(<<>>)]
Rejected(message) == [status |-> "rejected", value |-> <<>>, reason |-> message]

\* Promise.all([loadAppsData(), loadReviewsData()]) after one of the two has
\* settled: it stays as it is once settled, is rejected with the reason of
\* the first promise to reject, and is fulfilled with both values when both
\* are fulfilled.
PromiseAll_whenSettled(allData, appsData, reviewsData) ==
    IF allData.status # "pending" THEN allData
    ELSE IF appsData.status # "pending" /\ reviewsData.status # "pending"
    THEN Fulfilled([apps |-> appsData.value, reviews |-> reviewsData.value])
    ELSE allData

PromiseAll(allData, appsData, reviewsData) ==
    IF allData.status # "pending" THEN allData
    ELSE IF appsData.status = "rejected" THEN Rejected(appsData.reason)
    ELSE IF reviewsData.status = "rejected" THEN Rejected(reviewsData.reason)
    ELSE IF appsData.status = "fulfilled" /\ reviewsData.status = "fulfilled"
    THEN Fulfilled([apps |-> appsData.value, reviews |-> reviewsData.value])
    ELSE allData

\* row[field] on an object that may not own the field.
Cell(row, field) == IF field \in DOMAIN row THEN row[field] ELSE Undefined

\* (count / total * 100).toFixed(1) as the number with one decimal.
ToFixed1(count, total) == Dec((count * 2000 + total) \div (2 * total), 1)

\* One entry of issues for a critical field, none when no value is missing.
MissingIssue(data, field) ==
    LET missingCount ==
            Cardinality({i \in 1..Len(data) :
                \/ ~Truthy(Cell(data[i], field))
                \/ StrictEq(Cell(data[i], field), Str(<<>>))
                \/ StrictEq(Cell(data[i], field), Str(NanLabel))})
    IN IF missingCount > 0
       THEN <<[field |-> field, missing |-> missingCount,
               percent |-> ToFixed1(missingCount, Len(data))]>>
       ELSE <<>>

validateDataQuality(data) ==
    IF Len(data) = 0
    THEN [isValid |-> FALSE, totalRows |-> 0, uniqueApps |-> Undefined,
          duplicates |-> Undefined, issues |-> <<"Data is empty or not an array">>]
    ELSE LET named == {i \in 1..Len(data) : Truthy(Cell(data[i], "App"))}
             uniqueApps == Cardinality({Cell(data[i], "App") : i \in named})
             duplicateCount == Cardinality(named) - uniqueApps
             issues == MissingIssue(data, "App") \o MissingIssue(data, "Category")
                       \o (IF duplicateCount > 0
                           THEN <<[duplicates |-> duplicateCount]>> ELSE <<>>)
         IN [isValid |-> issues = <<>>, totalRows |-> Len(data),
             uniqueApps |-> uniqueApps, duplicates |-> duplicateCount,
             issues |-> issues]

----------------------------------------------------------------------------
(* hooks/useDataLoader.js *)

LOADING_DATA == Str(<<"Loading app data...">>)
PROCESSING_DATA == Str(<<"Processing analytics...">>)

\* The message of the Error that loadCSV throws for a response that is not
\* ok: ERROR_MESSAGES.DATA_LOAD_FAILED, ': ' and the HTTP error.
HttpError ==
    Str(<<"Failed to load data. Please check your internet connection.", ": ",
          "HTTP error! status: ", "404">>)

\* The message of the TypeError of a ?.trim() call on a cell that is no string.
TrimIsNotAFunction == Str(<<"?.trim is not a function">>)

InitialLoaderState ==
    [rawData |-> Null, processedData |-> Null, isLoading |-> FALSE,
     error |-> Null, loadingMessage |-> Str(<<>>), dataQuality |-> Null]

setLoadingState(prev, isLoading, message) ==
    [prev EXCEPT !.isLoading = isLoading,
                 !.loadingMessage = message,
                 !.error = IF isLoading THEN Null ELSE prev.error]

setError(prev, error) ==
    [prev EXCEPT !.isLoading = FALSE, !.error = error, !.loadingMessage = Str(<<>>)]

\* The first setState of reloadData.
ResetData(prev) ==
    [prev EXCEPT !.rawData = Null, !.processedData = Null, !.error = Null,
                 !.dataQuality = Null]

\* A load cycle that has called loadAllData: both fetches are under way.
NewCycle ==
    [position |-> "fetching", appsData |-> Pending, reviewsData |-> Pending,
     allData |-> Pending, rawData |-> Null]

\* The body of processData between its two state updates: the processed
\* data and the quality reports, or the error that one of the steps throws.
processData(data, now) ==
    LET processed == processAppsData(data.apps)
        clean == removeDuplicateApps(processed.value)
        reviewed == processReviewsData(data.reviews)
        enriched == mergeAppsWithSentiment(clean, reviewed.value)
    IN IF processed.threw \/ reviewed.threw
       THEN ThrewError(TrimIsNotAFunction)
       ELSE Returned(
              [processedData |->
                  [apps |-> enriched,
                   reviews |-> reviewed.value,
                   processedAt |-> now,
                   stats |-> [totalApps |-> Len(enriched),
                              totalReviews |-> Len(reviewed.value),
                              duplicatesRemoved |-> Len(processed.value) - Len(clean)]],
               dataQuality |->
                  [apps |-> validateDataQuality(enriched),
                   reviews |-> validateDataQuality(reviewed.value)]])

----------------------------------------------------------------------------
(* Sidebar, App and useAnalytics: the filter set travels from the Sidebar
   controls through App.handleFiltersChange into the state of useAnalytics,
   whose memos and effect recompute what the dashboard shows.  A filter
   object is a Filters record in which an absent key is Undefined. *)

\* {}: the filter object without keys.
NoFilters == Filters(Undefined, Undefined, Undefined, Undefined, Undefined, Undefined)

\* The state useAnalytics starts with.
InitialAnalyticsState ==
    [analytics |-> Null, chartData |-> Null, isGenerating |-> FALSE,
     error |-> Null, filters |-> NoFilters, filteredApps |-> <<>>]

\* { ...filters }: the keys of the second object over those of the first.
Spread(filterSet, newFilters) ==
    [key \in DOMAIN filterSet |->
        IF newFilters[key] # Undefined THEN newFilters[key] ELSE filterSet[key]]

\* updateFilters: the state after its updater.
updateFilters(state, newFilters) ==
    [state EXCEPT !.filters = Spread(state.filters, newFilters)]

\* The filteredApps memo of useAnalytics; filterApps does not throw on the
\* records of processAppsData.
memoFilteredApps(appList, state) ==
    IF Len(appList) = 0 THEN <<>> ELSE filterApps(appList, state.filters)

\* The try block of the generateCurrentAnalytics memo once both generators
\* were called: the error the first of them threw, or the pair of results.
AnalyticsAndCharts(generated, charted) ==
    IF generated.threw THEN ThrewError(generated.message)
    ELSE IF charted.threw THEN ThrewError(charted.message)
    ELSE Returned([analytics |-> generated.value, chartData |-> charted.value])

\* The generateCurrentAnalytics memo: null for no apps, the thrown error or
\* the pair of analytics and chart data.
generateCurrentAnalytics(filtered, reviewList, now) ==
    IF Len(filtered) = 0 THEN Returned(Null)
    ELSE AnalyticsAndCharts(generateAnalytics(filtered, reviewList, now),
                            generateChartData(filtered))

\* The state after the updaters of one render: the catch block of the memo
\* stores the error, the effect stores a result that is not null, and a null
\* result leaves the state as it is.
StoreResult(state, filtered, current) ==
    IF current.threw
    THEN [state EXCEPT !.isGenerating = FALSE, !.error = Str(current.message)]
    ELSE IF current.value = Null THEN state
    ELSE [state EXCEPT !.analytics = current.value.analytics,
                       !.chartData = current.value.chartData,
                       !.filteredApps = filtered,
                       !.isGenerating = FALSE,
                       !.error = Null]

\* The render of useAnalytics for one value of the filteredApps memo.
RenderWith(state, filtered, reviewList, now) ==
    StoreResult(state, filtered, generateCurrentAnalytics(filtered, reviewList, now))

\* The state of useAnalytics once the renders that a change of apps, reviews
\* or state.filters starts have come to rest: the memos ran, the updaters
\* they queued were applied, and the effect stored the result if there is
\* one.
Rerender(state, appList, reviewList, now) ==
    RenderWith(state, memoFilteredApps(appList, state), reviewList, now)

\* Sidebar.handleFilterChange: the object it hands to onFiltersChange.
handleFilterChange(filterSet, filterKey, value) ==
    IF value = Str(<<>>) \/ value = Null
    THEN [filterSet EXCEPT ![filterKey] = Undefined]
    ELSE [filterSet EXCEPT ![filterKey] = value]

----------------------------------------------------------------------------
(* The variables a specification does not use keep these values. *)

IdleInstalls ==
    /\ installString = Undefined
    /\ installsNumber = Undefined
    /\ installsCategory = "none"

IdleApps == apps = <<>>

IdleDedup == cleanApps = <<>>

IdleFilter ==
    /\ filters = Undefined
    /\ filteredApps = <<>>
    /\ refilteredApps = <<>>

IdleClean ==
    /\ rawData = <<>>
    /\ processedApps = Returned(<<>>)
    /\ rawReviews = <<>>
    /\ processedReviews = Returned(<<>>)

IdleReviews == reviews = <<>>

IdleMerge ==
    /\ IdleReviews
    /\ enrichedApps = <<>>

IdleValues == values = <<>>

IdleStats == basicStats = Undefined

IdleCorr ==
    /\ xs = <<>>
    /\ ys = <<>>
    /\ correlation = Undefined

IdleFreq ==
    /\ topN = Undefined
    /\ frequencyAnalysis = <<>>

IdleRatings ==
    /\ ratings = <<>>
    /\ ratingDistribution = Undefined

IdleToolkit == IdleValues /\ IdleStats /\ IdleCorr /\ IdleFreq /\ IdleRatings

IdleCategory == categoryPerformance = Returned(<<>>)

IdlePercent ==
    /\ overviewAnalytics = Undefined
    /\ marketShare = Returned(<<>>)
    /\ ratingAnalytics = Undefined
    /\ sentimentAnalytics = Undefined

IdleAnalytics == analytics = Returned(<<>>)

IdleEngine == IdleCategory /\ IdlePercent /\ IdleAnalytics

IdleConvert ==
    /\ rawCell = Undefined
    /\ sizeBytes = Undefined
    /\ priceNumber = Undefined

IdlePipeline == IdleInstalls /\ IdleDedup /\ IdleFilter /\ IdleClean

IdleChart == chartData = Undefined

IdleLoader ==
    /\ loaderState = InitialLoaderState
    /\ cycles = <<>>

IdleDashboard ==
    /\ appFilters = NoFilters
    /\ hookApps = <<>>
    /\ hookReviews = <<>>
    /\ hookState = InitialAnalyticsState

IdleView == IdleChart /\ IdleLoader /\ IdleDashboard

----------------------------------------------------------------------------
(* Inputs of the field normalisers *)

MaxInstallLen == 3

InstallAlphabet == {"0", "1", ",", "+", "-", " "}

RECURSIVE StringsUpTo(_, _)
StringsUpTo(alphabet, k) ==
    IF k = 0 THEN {<<>>}
    ELSE LET shorter == StringsUpTo(alphabet, k - 1)
         IN shorter \cup {str \o <<c>> : str \in shorter, c \in alphabet}

\* Install counts around every boundary of INSTALL_RANGES.
InstallCounts ==
    UNION {{INSTALL_RANGES[i].min - 1, INSTALL_RANGES[i].min,
            INSTALL_RANGES[i].min + 1} : i \in 1..Len(INSTALL_RANGES)}
    \cup {1000000000}

\* Raw Installs cells: strings as they stand in the CSV, the numbers that
\* Papa.parse's dynamicTyping makes of all-digit cells, and missing cells.
RawInstalls ==
    {Str(str) : str \in StringsUpTo(InstallAlphabet, MaxInstallLen)}
    \cup {Str(String(Num(k)) \o <<"+">>) : k \in InstallCounts \ {-1}}
    \cup {Str(<<"1", "0", ",", "0", "0", "0", "+">>),
          Str(<<"1", ",", "0", "0", "0", ",", "0", "0", "0", "+">>),
          Str(<<"F", "r", "e", "e">>)}
    \cup {Num(k) : k \in InstallCounts}
    \cup {Undefined, Null}

----------------------------------------------------------------------------
(* Specification SpecInstalls: one Installs cell is converted, then bucketed *)

InitInstalls ==
    /\ pc = "start"
    /\ installString \in RawInstalls
    /\ installsNumber = Undefined
    /\ installsCategory = "none"
    /\ IdleApps /\ IdleDedup /\ IdleFilter /\ IdleClean /\ IdleMerge
    /\ IdleToolkit /\ IdleEngine /\ IdleConvert /\ IdleView

ConvertInstalls ==
    /\ pc = "start"
    /\ installsNumber' = convertInstallsToNumber(installString)
    /\ pc' = "converted"
    /\ UNCHANGED <<installString, installsCategory, outsideInstalls>>

CategorizeInstalls ==
    /\ pc = "converted"
    /\ installsCategory' = categorizeInstalls(installsNumber)
    /\ pc' = "categorized"
    /\ UNCHANGED <<installString, installsNumber, outsideInstalls>>

NextInstalls == ConvertInstalls \/ CategorizeInstalls

SpecInstalls == InitInstalls /\ [][NextInstalls]_vars

----------------------------------------------------------------------------
(* Claims about the install buckets *)

\* The entries of the table whose half-open interval holds the count k.
RangesHolding(k) ==
    {i \in 1..Len(INSTALL_RANGES) :
        INSTALL_RANGES[i].min <= k /\ k < INSTALL_RANGES[i].max}

\* C5: for every install count n >= 0 exactly one entry of INSTALL_RANGES has
\* min <= n < max, and categorizeInstalls(n) is that entry's label, never
\* 'Unknown'.
C5_BucketsExhaustiveDisjoint ==
    (pc = "categorized" /\ installsNumber.n >= 0) =>
        /\ Cardinality(RangesHolding(installsNumber.n)) = 1
        /\ \A i \in RangesHolding(installsNumber.n) :
              installsCategory = INSTALL_RANGES[i].label
        /\ installsCategory # "Unknown"

\* A count on a bucket boundary has been bucketed.
C5_Witness ==
    /\ pc = "categorized"
    /\ installsNumber.n = 1000000
    /\ installsCategory = "1M-10M"

\* C6: whatever the raw Installs cell, the converted value is mapped to
\* exactly one bucket of the table and never to 'Unknown'.
C6_ConvertedAlwaysBucketed ==
    pc = "categorized" =>
        /\ installsCategory # "Unknown"
        /\ \E i \in 1..Len(INSTALL_RANGES) :
              installsCategory = INSTALL_RANGES[i].label

----------------------------------------------------------------------------
(* Specification SpecDedup: a list of App records is deduplicated *)

MaxDedupApps == 3


\* Apps that share names and review counts and differ in category, so that the
\* record kept among duplicates can be told from the ones dropped.
DedupApps ==
    {App(Str(name), Str(category), Dec(45, 1), Num(reviewCount), Num(1000),
         Str(Free), Str(Everyone), False) :
        name \in {NameB, NameA, Name7}, category \in {GAME, TOOLS},
        reviewCount \in {0, 10}}

RECURSIVE ListsUpTo(_, _)
ListsUpTo(elements, k) ==
    IF k = 0 THEN {<<>>}
    ELSE LET shorter == ListsUpTo(elements, k - 1)
         IN shorter \cup {Append(l, e) : l \in shorter, e \in elements}

InitDedup ==
    /\ pc = "start"
    /\ apps \in ListsUpTo(DedupApps, MaxDedupApps)
    /\ cleanApps = <<>>
    /\ IdleInstalls /\ IdleFilter /\ IdleClean /\ IdleMerge
    /\ IdleToolkit /\ IdleEngine /\ IdleConvert /\ IdleView

RemoveDuplicateApps ==
    /\ pc = "start"
    /\ cleanApps' = removeDuplicateApps(apps)
    /\ pc' = "deduplicated"
    /\ UNCHANGED <<apps, outsideDedup>>

NextDedup == RemoveDuplicateApps

SpecDedup == InitDedup /\ [][NextDedup]_vars

----------------------------------------------------------------------------
(* Claims about removeDuplicateApps *)

\* The positions of the input records that carry a name.
Named(appList, name) == {i \in 1..Len(appList) : appList[i].app = name}

\* The positions, among those of a name, whose reviews count is the greatest.
MostReviewed(appList, name) ==
    {i \in Named(appList, name) :
        \A j \in Named(appList, name) :
            appList[i].reviews.n >= appList[j].reviews.n}

\* C1: the result holds exactly one record per distinct name of the input,
\* and that record is an input record of the name whose reviews count is the
\* greatest among the input records of the name.
C1_OnePerNameWithMostReviews ==
    pc = "deduplicated" =>
        /\ \A i \in 1..Len(apps) :
              Cardinality(Named(cleanApps, apps[i].app)) = 1
        /\ \A k \in 1..Len(cleanApps) :
              \E i \in MostReviewed(apps, cleanApps[k].app) :
                  cleanApps[k] = apps[i]

\* A name occurred with two different review counts and the greater was kept.
C1_Witness ==
    /\ pc = "deduplicated"
    /\ Len(cleanApps) = 2
    /\ \E i, j \in 1..Len(apps) :
          /\ apps[i].app = apps[j].app
          /\ apps[i].reviews.n < apps[j].reviews.n
          /\ \E k \in 1..Len(cleanApps) : cleanApps[k] = apps[j]

\* The least member of a non-empty set of positions.
First(positions) == CHOOSE i \in positions : \A j \in positions : i <= j

\* C2: when several records of one name tie for the greatest reviews count,
\* the record kept is the one that comes first in the input.
C2_TieKeepsFirst ==
    pc = "deduplicated" =>
        \A k \in 1..Len(cleanApps) :
            cleanApps[k] = apps[First(MostReviewed(apps, cleanApps[k].app))]

\* Two different records of one name tied for the greatest count.
C2_Witness ==
    /\ pc = "deduplicated"
    /\ \E i, j \in 1..Len(apps) :
          /\ i < j
          /\ {i, j} \subseteq MostReviewed(apps, apps[i].app)
          /\ apps[i] # apps[j]
          /\ \E k \in 1..Len(cleanApps) : cleanApps[k] = apps[i]

----------------------------------------------------------------------------
(* Specification SpecFilter: a list of apps is filtered, and the result is   *)
(* filtered again with the same criteria                                     *)

MaxFilterApps == 3

\* Apps that differ in every field filterApps reads; one has no rating and one
\* has exactly the rating 4 that the criteria below ask for.
FilterApps ==
    {App(Str(NameA), Str(GAME), Dec(45, 1), Num(10), Num(1000),
         Str(Free), Str(Everyone), False),
     App(Str(NameB), Str(GAME), Num(4), Num(10), Num(1000),
         Str(Paid), Str(Teen), True),
     App(Str(Name7), Str(TOOLS), Null, Num(0), Num(0),
         Str(Free), Str(Teen), True),
     App(Str(NameA), Str(TOOLS), Dec(39, 1), Num(0), Num(0),
         Str(Paid), Str(Everyone), False)}

\* Criteria objects: a key that is absent is Undefined; category may be the
\* empty string of the "All Categories" option and minRating may be 0 or
\* negative; genres is a key filterApps does not know.
FilterCriteria ==
    {Filters(category, minRating, type, contentRating, isPaid, genres) :
        category \in {Undefined, Str(<<>>), Str(GAME)},
        minRating \in {Undefined, Num(0), Num(-1), Num(4)},
        type \in {Undefined, Str(Paid)},
        contentRating \in {Undefined, Str(Teen)},
        isPaid \in {Undefined, True, False},
        genres \in {Undefined, Str(GAME)}}

InitFilter ==
    /\ pc = "start"
    /\ apps \in ListsUpTo(FilterApps, MaxFilterApps)
    /\ filters \in FilterCriteria
    /\ filteredApps = <<>>
    /\ refilteredApps = <<>>
    /\ IdleInstalls /\ IdleDedup /\ IdleClean /\ IdleMerge
    /\ IdleToolkit /\ IdleEngine /\ IdleConvert /\ IdleView

FilterOnce ==
    /\ pc = "start"
    /\ filteredApps' = filterApps(apps, filters)
    /\ pc' = "filtered"
    /\ UNCHANGED <<apps, filters, refilteredApps, outsideFilter>>

FilterAgain ==
    /\ pc = "filtered"
    /\ refilteredApps' = filterApps(filteredApps, filters)
    /\ pc' = "refiltered"
    /\ UNCHANGED <<apps, filters, filteredApps, outsideFilter>>

NextFilter == FilterOnce \/ FilterAgain

SpecFilter == InitFilter /\ [][NextFilter]_vars

----------------------------------------------------------------------------
(* Claims about filterApps *)

\* C3: filtering the result of filterApps again with the same criteria gives
\* the same list, element for element.
C3_FilterIdempotent ==
    pc = "refiltered" => refilteredApps = filteredApps

\* The first pass dropped some apps and kept others, and was then repeated.
C3_Witness ==
    /\ pc = "refiltered"
    /\ filteredApps # <<>>
    /\ Len(filteredApps) < Len(apps)
    /\ Truthy(filters.category)
    /\ Truthy(filters.minRating)

\* An app's rating is at least the bound; a missing (null) rating counts as 0.
RatingAtLeast(a, bound) ==
    (IF a.rating = Null THEN 0 ELSE a.rating.n) * Pow10(bound.d)
        >= bound.n * Pow10(a.rating.d)

\* The app meets every constraint of the criteria, where a key of category,
\* minRating, type and contentRating constrains only if its value is truthy
\* (neither absent, nor '', nor 0) and isPaid constrains unless undefined.
MeetsTruthyCriteria(a, criteria) ==
    /\ (criteria.category \notin {Undefined, Str(<<>>)}) =>
            a.category = criteria.category
    /\ (criteria.minRating \notin {Undefined, Num(0)}) =>
            RatingAtLeast(a, criteria.minRating)
    /\ (criteria.type \notin {Undefined, Str(<<>>)}) => a.type = criteria.type
    /\ (criteria.contentRating \notin {Undefined, Str(<<>>)}) =>
            a.contentRating = criteria.contentRating
    /\ (criteria.isPaid # Undefined) => a.isPaid = criteria.isPaid

\* C4 (amended): filterApps returns, in input order, exactly the apps that
\* meet every constraint of the criteria; a key constrains when its value is
\* truthy (category, minRating, type, contentRating: not absent, not '', not
\* 0) or, for isPaid, not undefined; a null rating compares as 0; keys that
\* are not recognised change nothing.
C4_FilterKeepsExactlyMatching ==
    pc \in {"filtered", "refiltered"} =>
        /\ filteredApps = SelectSeq(apps, LAMBDA a : MeetsTruthyCriteria(a, filters))
        /\ filteredApps = filterApps(apps, [filters EXCEPT !.genres = Undefined])

\* Every recognised key constrained the result, and an unknown key was given.
C4_Witness ==
    /\ pc = "filtered"
    /\ Truthy(filters.category) /\ Truthy(filters.minRating)
    /\ Truthy(filters.type) /\ Truthy(filters.contentRating)
    /\ filters.isPaid # Undefined /\ filters.genres # Undefined
    /\ filteredApps # <<>>
    /\ Len(filteredApps) < Len(apps)

\* The app meets every constraint whose key is present (not undefined).
MeetsPresentCriteria(a, criteria) ==
    /\ (criteria.category # Undefined) => a.category = criteria.category
    /\ (criteria.minRating # Undefined) =>
            RatingAtLeast(a, criteria.minRating)
    /\ (criteria.type # Undefined) => a.type = criteria.type
    /\ (criteria.contentRating # Undefined) =>
            a.contentRating = criteria.contentRating
    /\ (criteria.isPaid # Undefined) => a.isPaid = criteria.isPaid

\* C4 as stated: every key that is present and not undefined constrains.
C4_Original ==
    pc \in {"filtered", "refiltered"} =>
        filteredApps = SelectSeq(apps, LAMBDA a : MeetsPresentCriteria(a, filters))

----------------------------------------------------------------------------
(* Specification SpecCleanApps: raw app rows are cleaned by processAppsData *)

MaxRawApps == 2

\* A row as the CSV usually holds it, with the given name, category, rating,
\* price and 'Current Ver' cells.
AppRow(name, category, rating, price, currentVer) ==
    RawAppRow(name, category, rating, Num(10),
              Str(<<"1", ",", "0", "0", "0", "+">>), Str(Free), price,
              Str(Everyone), currentVer)

VersionText == <<"1", ".", "0", ".", "2">>

\* Rows whose name and category cells are missing, empty, blank, padded or
\* numeric; rows with every kind of Rating cell (in range, out of range, the
\* text NaN, missing); a paid row; a row whose version cell Papa.parse has
\* typed as the number 1.1.
RawAppRows ==
    {AppRow(name, category, Dec(45, 1), Num(0), Str(VersionText)) :
        name \in {Undefined, Str(<<>>), Str(<<" ">>), Str(NameA),
                  Str(<<" ">> \o NameB \o <<" ">>), Num(7)},
        category \in {Undefined, Str(<<" ">>), Str(GAME)}}
    \cup {AppRow(Str(NameA), Str(TOOLS), rating, Num(0), Str(VersionText)) :
            rating \in {Undefined, Str(<<"N", "a", "N">>), Num(0), Num(1), Num(5),
                        Dec(5, 1), Num(19)}}
    \cup {AppRow(Str(NameB), Str(TOOLS), Num(4),
                 Str(<<"$", "4", ".", "9", "9">>), Str(VersionText)),
          AppRow(Str(NameB), Str(GAME), Num(4), Num(0), Dec(11, 1))}

InitCleanApps ==
    /\ pc = "start"
    /\ rawData \in ListsUpTo(RawAppRows, MaxRawApps)
    /\ processedApps = Returned(<<>>)
    /\ rawReviews = <<>>
    /\ processedReviews = Returned(<<>>)
    /\ IdleApps /\ IdleInstalls /\ IdleDedup /\ IdleFilter /\ IdleMerge
    /\ IdleToolkit /\ IdleEngine /\ IdleConvert /\ IdleView

ProcessAppsData ==
    /\ pc = "start"
    /\ processedApps' = processAppsData(rawData)
    /\ pc' = "appsProcessed"
    /\ UNCHANGED <<rawData, rawReviews, processedReviews, outsideClean>>

NextCleanApps == ProcessAppsData

SpecCleanApps == InitCleanApps /\ [][NextCleanApps]_vars

----------------------------------------------------------------------------
(* Claims about processAppsData *)

\* A cell is present: it is not missing and its text is not blank.
Present(cell) == ~IsNullish(cell) /\ Trim(String(cell)) # <<>>

\* The rows whose name and category are both present, in input order.
RowsWithNameAndCategory(rows) ==
    SelectSeq(rows, LAMBDA row : Present(row.App) /\ Present(row.Category))

\* C7: processAppsData returns one App per input row whose name and category
\* are both present, omits the other rows, and keeps the input order.
C7_OneAppPerCompleteRow ==
    pc = "appsProcessed" =>
        LET complete == RowsWithNameAndCategory(rawData)
        IN /\ ~processedApps.threw
           /\ Len(processedApps.value) = Len(complete)
           /\ \A k \in 1..Len(complete) :
                /\ processedApps.value[k].app.s = Trim(String(complete[k].App))
                /\ processedApps.value[k].category.s
                      = Trim(String(complete[k].Category))

\* C8: every App record processAppsData produces has a rating that is null
\* or a number from 1.0 to 5.0.
C8_RatingNullOrInRange ==
    pc = "appsProcessed" =>
        \A k \in 1..Len(processedApps.value) :
            LET rating == processedApps.value[k].rating
            IN \/ rating = Null
               \/ /\ rating.t = "number"
                  /\ NumGe(rating, Num(1))
                  /\ NumGe(Num(5), rating)

----------------------------------------------------------------------------
(* Specification SpecCleanReviews: raw review rows are cleaned by            *)
(* processReviewsData                                                        *)

MaxRawReviews == 2

PositiveLabel == <<"P", "o", "s", "i", "t", "i", "v", "e">>
NegativeLabel == <<"N", "e", "g", "a", "t", "i", "v", "e">>
NeutralLabel  == <<"N", "e", "u", "t", "r", "a", "l">>
MixedLabel    == <<"M", "i", "x", "e", "d">>
ReviewText    == <<"o", "k">>

\* Rows whose app cell is missing, blank, plain or padded and whose sentiment
\* cell is missing, empty, the null sentinel, a label in either case, a
\* padded label or an unknown label; a row whose review text Papa.parse has
\* typed as the number 5; a row whose polarity cell does not parse.
RawReviewRows ==
    {RawReviewRow(name, Str(ReviewText), sentiment, Dec(5, 1), Dec(5, 1)) :
        name \in {Undefined, Str(<<" ">>), Str(NameA), Str(<<" ">> \o NameA)},
        sentiment \in {Undefined, Str(<<>>), Str(NanLabel), Str(PositiveLabel),
                       Str(NegativeLabel), Str(Neutral),
                       Str(PositiveLabel \o <<" ">>), Str(MixedLabel)}}
    \cup {RawReviewRow(Str(NameA), Num(5), Str(PositiveLabel), Dec(5, 1), Dec(5, 1)),
          RawReviewRow(Str(NameA), Str(ReviewText), Str(NeutralLabel),
                       Str(NanLabel), Undefined)}

InitCleanReviews ==
    /\ pc = "start"
    /\ rawReviews \in ListsUpTo(RawReviewRows, MaxRawReviews)
    /\ processedReviews = Returned(<<>>)
    /\ rawData = <<>>
    /\ processedApps = Returned(<<>>)
    /\ IdleApps /\ IdleInstalls /\ IdleDedup /\ IdleFilter /\ IdleMerge
    /\ IdleToolkit /\ IdleEngine /\ IdleConvert /\ IdleView

ProcessReviewsData ==
    /\ pc = "start"
    /\ processedReviews' = processReviewsData(rawReviews)
    /\ pc' = "reviewsProcessed"
    /\ UNCHANGED <<rawData, processedApps, rawReviews, outsideClean>>

NextCleanReviews == ProcessReviewsData

SpecCleanReviews == InitCleanReviews /\ [][NextCleanReviews]_vars

----------------------------------------------------------------------------
(* Claims about processReviewsData *)

\* A cell is lacking: it is missing or empty.
Lacking(cell) == IsNullish(cell) \/ String(cell) = <<>>

\* The rows processReviewsData is to keep, in input order.
RowsToKeep(rows) ==
    SelectSeq(rows, LAMBDA row :
        /\ ~Lacking(row.App)
        /\ ~Lacking(row.Sentiment)
        /\ row.Sentiment # Str(NanLabel))

\* C9: processReviewsData drops exactly the rows that lack an app name, lack
\* a sentiment label or carry the null-sentinel label, and sets the three
\* flags of each kept row by comparing its lower-cased label with 'positive',
\* 'negative' and 'neutral'.
C9_ReviewsKeptAndFlagged ==
    pc = "reviewsProcessed" =>
        LET kept == RowsToKeep(rawReviews)
        IN /\ ~processedReviews.threw
           /\ Len(processedReviews.value) = Len(kept)
           /\ \A k \in 1..Len(kept) :
                LET label == toLowerCase(String(kept[k].Sentiment))
                    review == processedReviews.value[k]
                IN /\ review.app.s = Trim(String(kept[k].App))
                   /\ review.isPositive = Bool(label = Positive)
                   /\ review.isNegative = Bool(label = Negative)
                   /\ review.isNeutral = Bool(label = Neutral)

----------------------------------------------------------------------------
(* Specification SpecMerge: apps are merged with the statistics of their     *)
(* reviews                                                                   *)

MaxMergeApps == 2
MaxMergeReviews == 3

NameConstructor == <<"c", "o", "n", "s", "t", "r", "u", "c", "t", "o", "r">>

MergeApps ==
    {App(Str(name), Str(GAME), Dec(45, 1), Num(10), Num(1000), Str(Free),
         Str(Everyone), False) : name \in {NameA, NameB, NameConstructor}}

\* Review records as processReviewsData builds them, for two of the apps, with
\* each label and a label that is none of the three.
MergeReviews ==
    {ReviewOfRow(RawReviewRow(Str(name), Str(ReviewText), Str(sentiment.label),
                              sentiment.polarity, Dec(5, 1))) :
        name \in {NameA, NameB},
        sentiment \in {[label |-> PositiveLabel, polarity |-> Dec(5, 1)],
                       [label |-> NegativeLabel, polarity |-> Dec(-25, 2)],
                       [label |-> NeutralLabel, polarity |-> Num(0)],
                       [label |-> MixedLabel, polarity |-> Num(1)]}}

InitMerge ==
    /\ pc = "start"
    /\ apps \in ListsUpTo(MergeApps, MaxMergeApps)
    /\ reviews \in ListsUpTo(MergeReviews, MaxMergeReviews)
    /\ enrichedApps = <<>>
    /\ IdleInstalls /\ IdleDedup /\ IdleFilter /\ IdleClean
    /\ IdleToolkit /\ IdleEngine /\ IdleConvert /\ IdleView

MergeAppsWithSentiment ==
    /\ pc = "start"
    /\ enrichedApps' = mergeAppsWithSentiment(apps, reviews)
    /\ pc' = "merged"
    /\ UNCHANGED <<apps, reviews, outsideMerge>>

NextMerge == MergeAppsWithSentiment

SpecMerge == InitMerge /\ [][NextMerge]_vars

----------------------------------------------------------------------------
(* Claims about mergeAppsWithSentiment *)

\* The positions of the reviews of an app.
ReviewsOf(name) == {j \in 1..Len(reviews) : reviews[j].app = name}

\* C10: an app with at least one review of its name gets a summary whose
\* total is the number of those reviews and whose percentages are
\* count / total * 100 for each label; an app with no review of its name
\* gets the summary in which every count, percentage and mean is 0.
C10_SummaryPerApp ==
    pc = "merged" =>
        /\ Len(enrichedApps) = Len(apps)
        /\ \A i \in 1..Len(apps) :
            LET own == ReviewsOf(apps[i].app)
                total == Cardinality(own)
                summary == enrichedApps[i].sentimentData
                labelled(flag) == Cardinality({j \in own : reviews[j][flag] = True})
            IN IF own = {} THEN summary = ZeroSentimentData
               ELSE /\ summary.totalReviews = Num(total)
                    /\ summary.positiveCount = Num(labelled("isPositive"))
                    /\ summary.negativeCount = Num(labelled("isNegative"))
                    /\ summary.neutralCount = Num(labelled("isNeutral"))
                    /\ summary.positivePercentage
                          = Ratio(labelled("isPositive") * 100, total)
                    /\ summary.negativePercentage
                          = Ratio(labelled("isNegative") * 100, total)
                    /\ summary.neutralPercentage
                          = Ratio(labelled("isNeutral") * 100, total)

----------------------------------------------------------------------------
(* Specification SpecStats: calculateBasicStats is applied to one list *)

MaxStatValues == 3

\* Elements of the lists handed to calculateBasicStats: ratings and
\* polarities, and the three values that its filter drops.
StatValues == {Null, Undefined, NaN, Num(1), Num(3), Dec(45, 1)}

InitStats ==
    /\ pc = "start"
    /\ values \in ListsUpTo(StatValues, MaxStatValues)
    /\ basicStats = Undefined
    /\ IdleApps /\ IdlePipeline /\ IdleMerge
    /\ IdleCorr /\ IdleFreq /\ IdleRatings /\ IdleEngine /\ IdleConvert /\ IdleView

CalculateBasicStats ==
    /\ pc = "start"
    /\ basicStats' = calculateBasicStats(values)
    /\ pc' = "computed"
    /\ UNCHANGED <<values, outsideStats>>

NextStats == CalculateBasicStats

SpecStats == InitStats /\ [][NextStats]_vars

\* The list holds no value other than null, undefined and NaN.
NoValidValue(list) == \A i \in 1..Len(list) : list[i] \in {Null, Undefined, NaN}

\* C11: for a list that holds nothing but null, undefined and NaN (the empty
\* list included) calculateBasicStats returns the fixed struct: count, mean,
\* median, min, max, std, variance, q1, q3 and iqr are 0 and mode is null.
C11_NoValidValueGivesZeroStats ==
    (pc = "computed" /\ NoValidValue(values)) =>
        /\ \A field \in {"count", "mean", "median", "min", "max", "std",
                          "variance", "q1", "q3", "iqr"} : basicStats[field] = Num(0)
        /\ basicStats.mode = Null

\* A list of null, undefined and NaN has been given its statistics.
C11_Witness ==
    /\ pc = "computed"
    /\ values = <<Null, NaN, Undefined>>
    /\ basicStats = ZeroStats

----------------------------------------------------------------------------
(* Specification SpecCorr: calculateCorrelation is applied to two lists *)

MaxCorrLen == 3

CorrXValues == {Undefined, NaN, Num(1), Num(2)}
CorrYValues == {Null, NaN, Num(1), Dec(45, 1)}

InitCorr ==
    /\ pc = "start"
    /\ xs \in ListsUpTo(CorrXValues, MaxCorrLen)
    /\ ys \in ListsUpTo(CorrYValues, MaxCorrLen)
    /\ correlation = Undefined
    /\ IdleApps /\ IdlePipeline /\ IdleMerge
    /\ IdleValues /\ IdleStats /\ IdleFreq /\ IdleRatings /\ IdleEngine /\ IdleConvert /\ IdleView

CalculateCorrelation ==
    /\ pc = "start"
    /\ correlation' = calculateCorrelation(xs, ys)
    /\ pc' = "computed"
    /\ UNCHANGED <<xs, ys, outsideCorr>>

NextCorr == CalculateCorrelation

SpecCorr == InitCorr /\ [][NextCorr]_vars

\* The positions of xs and ys at which both hold a number.
Remaining == {i \in 1..Len(xs) : xs[i].t = "number" /\ ys[i].t = "number"}

\* A series is constant on the remaining positions.
ConstantOn(list, positions) == \A i, j \in positions : list[i] = list[j]

----------------------------------------------------------------------------
(* Specification SpecFreq: calculateFrequencyAnalysis is applied to one list *)

MaxFreqValues == 3

\* Category names, one of them made of digits, and the three values that
\* the filter drops.
FreqValues == {Str(GAME), Str(TOOLS), Str(Name7), Str(<<>>), Null, Undefined}

\* The second argument: left out, or a small count.
TopNs == {Undefined, Num(0), Num(1), Num(2)}

InitFreq ==
    /\ pc = "start"
    /\ values \in ListsUpTo(FreqValues, MaxFreqValues)
    /\ topN \in TopNs
    /\ frequencyAnalysis = <<>>
    /\ IdleApps /\ IdlePipeline /\ IdleMerge
    /\ IdleStats /\ IdleCorr /\ IdleRatings /\ IdleEngine /\ IdleConvert /\ IdleView

CalculateFrequencyAnalysis ==
    /\ pc = "start"
    /\ frequencyAnalysis' = calculateFrequencyAnalysis(values, topN)
    /\ pc' = "computed"
    /\ UNCHANGED <<values, topN, outsideFreq>>

NextFreq == CalculateFrequencyAnalysis

SpecFreq == InitFreq /\ [][NextFreq]_vars

\* The positions of values that hold a value to count, those that hold the
\* text of one entry, and the first position of that text.
Counted == {i \in 1..Len(values) : ~IsNullish(values[i]) /\ values[i] # Str(<<>>)}
Occurrences(text) == {i \in Counted : String(values[i]) = text}
FirstSeen(text) == First(Occurrences(text))

\* The greatest number of entries asked for.
Limit == IF topN = Undefined THEN 10 ELSE topN.n

\* The result has one entry for each of its values, with the count of the
\* value and its percentage of all counted values.
EntriesCountTheirValue ==
    /\ \A i, j \in 1..Len(frequencyAnalysis) :
          i # j => frequencyAnalysis[i].value # frequencyAnalysis[j].value
    /\ \A i \in 1..Len(frequencyAnalysis) :
          LET entry == frequencyAnalysis[i]
              count == Cardinality(Occurrences(entry.value.s))
          IN /\ count > 0
             /\ entry.count = Num(count)
             /\ entry.percentage = Ratio(count * 100, Cardinality(Counted))

\* The result holds the most frequent values, as many as asked for.
EntriesAreTheTop ==
    LET distinct == {String(values[i]) : i \in Counted}
        shown == {frequencyAnalysis[i].value.s : i \in 1..Len(frequencyAnalysis)}
    IN /\ Len(frequencyAnalysis) <= Limit
       /\ Len(frequencyAnalysis) =
             (IF Cardinality(distinct) < Limit THEN Cardinality(distinct) ELSE Limit)
       /\ \A inside \in shown : \A outside \in distinct \ shown :
             Cardinality(Occurrences(inside)) >= Cardinality(Occurrences(outside))

\* C13: calculateFrequencyAnalysis returns at most topN entries ordered by
\* count descending, each with its count and its percentage of all values that
\* are not null, undefined or empty, and entries with equal counts stand in
\* the order in which their values first occur in the input.
C13_TopByCountThenFirstSeen ==
    pc = "computed" =>
        /\ EntriesCountTheirValue
        /\ EntriesAreTheTop
        /\ \A i, j \in 1..Len(frequencyAnalysis) :
              i < j =>
                 LET former == frequencyAnalysis[i]
                     latter == frequencyAnalysis[j]
                 IN \/ former.count.n > latter.count.n
                    \/ /\ former.count = latter.count
                       /\ FirstSeen(former.value.s) < FirstSeen(latter.value.s)

----------------------------------------------------------------------------
(* Specification SpecCategory: analyzeCategoryPerformance is applied to one *)
(* app list                                                                 *)

MaxCategoryApps == 3

\* Processed apps of three categories, one of them named with digits, with
\* and without a rating.
CategoryApps ==
    {ProcessedApp(Str(GAME), Dec(45, 1), Num(10), Num(1000000), Dec(499, 2), Num(1024)),
     ProcessedApp(Str(GAME), NaN, Num(0), Num(500), Num(0), Null),
     ProcessedApp(Str(TOOLS), Num(3), Num(20), Num(1000), Num(0), Num(2048)),
     ProcessedApp(Str(TOOLS), NaN, Num(5), Num(0), Num(0), Null),
     ProcessedApp(Str(Name7), Num(4), Num(7), Num(100), Num(0), Null)}

InitCategory ==
    /\ pc = "start"
    /\ apps \in ListsUpTo(CategoryApps, MaxCategoryApps)
    /\ categoryPerformance = Returned(<<>>)
    /\ IdlePipeline /\ IdleMerge /\ IdleToolkit
    /\ IdlePercent /\ IdleAnalytics /\ IdleConvert /\ IdleView

AnalyzeCategoryPerformance ==
    /\ pc = "start"
    /\ categoryPerformance' = analyzeCategoryPerformance(apps)
    /\ pc' = "analyzed"
    /\ UNCHANGED <<apps, outsideCategory>>

NextCategory == AnalyzeCategoryPerformance

SpecCategory == InitCategory /\ [][NextCategory]_vars

\* The positions of apps that hold an app of a category, and the first.
InCategory(text) == {i \in 1..Len(apps) : String(apps[i].category) = text}
CategoryFirstSeen(text) == First(InCategory(text))

\* C14: analyzeCategoryPerformance returns its entries sorted by appCount
\* descending, and the entries of categories with equal appCount stand in the
\* order in which the categories are first seen in the input.
C14_SortedByAppCountThenFirstSeen ==
    pc = "analyzed" =>
        /\ ~categoryPerformance.threw
        /\ \A i, j \in 1..Len(categoryPerformance.value) :
              i < j =>
                 LET former == categoryPerformance.value[i]
                     latter == categoryPerformance.value[j]
                 IN \/ former.appCount.n > latter.appCount.n
                    \/ /\ former.appCount = latter.appCount
                       /\ CategoryFirstSeen(former.category.s)
                             < CategoryFirstSeen(latter.category.s)

\* The categories none of whose apps has a valid rating.
Unrated ==
    {String(apps[i].category) : i \in 1..Len(apps)}
    \ {String(apps[i].category) : i \in {j \in 1..Len(apps) : apps[j].rating.t = "number"}}

\* C15: analyzeCategoryPerformance returns a result for every app list, and
\* the entry of a category that has no app with a valid rating exists and
\* has mean rating 0, median rating 0 and the zero rating statistics.
C15_UnratedCategoryGetsZeros ==
    pc = "analyzed" =>
        /\ ~categoryPerformance.threw
        /\ \A text \in Unrated :
              \E i \in 1..Len(categoryPerformance.value) :
                 LET entry == categoryPerformance.value[i]
                 IN /\ entry.category = Str(text)
                    /\ entry.avgRating = Num(0)
                    /\ entry.medianRating = Num(0)
                    /\ entry.ratingStats = ZeroStats

----------------------------------------------------------------------------
(* Specification SpecPercent: the four functions that compute percentages   *)
(* are applied to one app list and one review list                          *)

MaxPercentApps == 2
MaxPercentReviews == 2

\* Processed apps with and without a rating and with and without installs.
PercentApps ==
    {ProcessedApp(Str(GAME), Dec(45, 1), Num(10), Num(1000000), Dec(499, 2), Num(1024)),
     ProcessedApp(Str(GAME), Num(2), Num(0), Num(0), Num(0), Null),
     ProcessedApp(Str(TOOLS), NaN, Num(5), Num(0), Num(0), Null),
     ProcessedApp(Str(TOOLS), Num(4), Num(5), Num(0), Num(0), Num(2048))}

\* Review records as processReviewsData builds them.
PercentReviews ==
    {ReviewOfRow(RawReviewRow(Str(NameA), Str(ReviewText), Str(sentiment.label),
                              sentiment.polarity, Dec(5, 1))) :
        sentiment \in {[label |-> PositiveLabel, polarity |-> Dec(5, 1)],
                       [label |-> NegativeLabel, polarity |-> Dec(-25, 2)],
                       [label |-> MixedLabel, polarity |-> Num(0)]}}

InitPercent ==
    /\ pc = "start"
    /\ apps \in ListsUpTo(PercentApps, MaxPercentApps)
    /\ reviews \in ListsUpTo(PercentReviews, MaxPercentReviews)
    /\ IdlePercent
    /\ enrichedApps = <<>>
    /\ IdlePipeline /\ IdleToolkit /\ IdleCategory /\ IdleAnalytics /\ IdleConvert /\ IdleView

GenerateOverviewAnalytics ==
    /\ pc = "start"
    /\ overviewAnalytics' = generateOverviewAnalytics(apps)
    /\ pc' = "overview"
    /\ UNCHANGED <<apps, reviews, marketShare, ratingAnalytics, sentimentAnalytics,
                   outsidePercent>>

CalculateMarketShare ==
    /\ pc = "overview"
    /\ marketShare' = calculateMarketShare(apps)
    /\ pc' = "marketShare"
    /\ UNCHANGED <<apps, reviews, overviewAnalytics, ratingAnalytics,
                   sentimentAnalytics, outsidePercent>>

GenerateRatingAnalytics ==
    /\ pc = "marketShare"
    /\ ratingAnalytics' = generateRatingAnalytics(apps)
    /\ pc' = "ratings"
    /\ UNCHANGED <<apps, reviews, overviewAnalytics, marketShare, sentimentAnalytics,
                   outsidePercent>>

GenerateSentimentAnalytics ==
    /\ pc = "ratings"
    /\ sentimentAnalytics' = generateSentimentAnalytics(reviews)
    /\ pc' = "sentiment"
    /\ UNCHANGED <<apps, reviews, overviewAnalytics, marketShare, ratingAnalytics,
                   outsidePercent>>

NextPercent ==
    \/ GenerateOverviewAnalytics
    \/ CalculateMarketShare
    \/ GenerateRatingAnalytics
    \/ GenerateSentimentAnalytics

SpecPercent == InitPercent /\ [][NextPercent]_vars

\* C16: a percentage whose denominator is 0 is 0: the three percentages of
\* the overview when there is no app, the install share of every category
\* when the installs total 0, highRatedPercentage when no app has a rating,
\* and the three sentiment percentages when there is no review.
C16_PercentOfNothingIsZero ==
    pc = "sentiment" =>
        /\ Len(apps) = 0 =>
              /\ overviewAnalytics.ratingsPercentage = Num(0)
              /\ overviewAnalytics.paidAppsPercentage = Num(0)
              /\ overviewAnalytics.popularAppsPercentage = Num(0)
        /\ (~marketShare.threw /\ marketShare.value.totalInstalls = Num(0)) =>
              \A i \in 1..Len(marketShare.value.categoryBreakdown) :
                 marketShare.value.categoryBreakdown[i].installMarketShare = Num(0)
        /\ (\A i \in 1..Len(apps) : apps[i].rating = Null) =>
              ratingAnalytics.highRatedPercentage = Num(0)
        /\ Len(reviews) = 0 =>
              \A label \in {"positive", "negative", "neutral"} :
                 sentimentAnalytics.sentimentPercentages[label] = Num(0)

----------------------------------------------------------------------------
(* Specification SpecAnalytics: generateAnalytics is applied to one app list *)
(* and one review list                                                       *)

MaxAnalyticsApps == 2
MaxAnalyticsReviews == 2

\* Processed apps of two categories, with and without a rating.
AnalyticsApps ==
    {ProcessedApp(Str(GAME), Dec(45, 1), Num(10), Num(300), Dec(15, 1), Num(1024)),
     ProcessedApp(Str(GAME), Num(2), Num(3), Num(100), Num(0), Null),
     ProcessedApp(Str(TOOLS), NaN, Num(5), Num(100), Num(0), Null),
     ProcessedApp(Str(TOOLS), Num(4), Num(5), Num(300), Num(0), Num(2048))}

\* Values of new Date().toISOString().
Timestamps == {"2024-01-01T00:00:00.000Z", "2024-01-01T00:00:00.001Z"}

InitAnalytics ==
    /\ pc = "start"
    /\ apps \in ListsUpTo(AnalyticsApps, MaxAnalyticsApps)
    /\ reviews \in ListsUpTo(PercentReviews, MaxAnalyticsReviews)
    /\ analytics = Returned(<<>>)
    /\ enrichedApps = <<>>
    /\ IdlePipeline /\ IdleToolkit /\ IdleCategory /\ IdlePercent /\ IdleConvert /\ IdleView

GenerateAnalytics ==
    /\ pc = "start"
    /\ \E now \in Timestamps : analytics' = generateAnalytics(apps, reviews, now)
    /\ pc' = "generated"
    /\ UNCHANGED <<apps, reviews, outsideAnalytics>>

NextAnalytics == GenerateAnalytics

SpecAnalytics == InitAnalytics /\ [][NextAnalytics]_vars

\* C17: generateAnalytics applied to an empty app list, with any review
\* list, returns a result, and the result is the defined one of no app: no
\* apps, no installs, no reviews of apps, average rating 0, no category, no
\* rating, and the statistics of the reviews.
C17_EmptyAppListGivesResult ==
    (pc = "generated" /\ apps = <<>>) =>
        /\ ~analytics.threw
        /\ analytics.value.overview.totalApps = Num(0)
        /\ analytics.value.overview.totalInstalls = Num(0)
        /\ analytics.value.overview.avgRating = Num(0)
        /\ analytics.value.categories.categoryPerformance = <<>>
        /\ analytics.value.ratings.ratingStats = ZeroStats
        /\ analytics.value.sentiment.totalReviews = Num(Len(reviews))

\* Some computation that generateAnalytics runs throws.
SubComputationThrows ==
    \/ analyzeCategoryPerformance(apps).threw
    \/ calculateMarketShare(apps).threw
    \/ generateCategoryAnalytics(apps).threw
    \/ generateInsights(apps, reviews).threw

AnalyticsFields ==
    {"overview", "categories", "ratings", "sentiment", "correlations", "insights",
     "generatedAt"}

\* C18: when a computation of generateAnalytics throws, generateAnalytics
\* returns nothing and throws one error whose message begins with
\* 'Analytics generation failed'; otherwise it returns an object in which
\* overview, categories, ratings, sentiment, correlations, insights and
\* generatedAt are all set.
C18_FailsAsOneErrorOrReturnsAll ==
    pc = "generated" =>
        IF SubComputationThrows
        THEN /\ analytics.threw
             /\ analytics.value = <<>>
             /\ Head(analytics.message) = "Analytics generation failed: "
        ELSE /\ ~analytics.threw
             /\ DOMAIN analytics.value = AnalyticsFields
             /\ \A field \in {"overview", "categories", "ratings", "sentiment",
                               "correlations", "insights"} :
                   DOMAIN analytics.value[field] # {}
             /\ analytics.value.generatedAt \in Timestamps

\* generateAnalytics has failed on a list with a category without rating,
\* out of the error of math.median.
C18_Witness ==
    /\ pc = "generated"
    /\ Len(apps) = 2
    /\ analyzeCategoryPerformance(apps).threw
    /\ analytics.threw
    /\ analytics.message = AnalyticsGenerationFailed \o MedianOfEmptyArray

----------------------------------------------------------------------------
(* Specification SpecRatings: analyzeRatingDistribution is applied to one    *)
(* list of ratings                                                           *)

MaxRatings == 2

\* Ratings as processAppsData leaves them: the ends of every bucket, ratings
\* inside the buckets, ratings below 1 and above 5, and no rating.
RatingValues ==
    {Num(1), Dec(19, 1), Num(2), Num(3), Num(4), Dec(44, 1), Dec(45, 1), Num(5),
     Dec(5, 1), Num(19), Num(0), Null, NaN}

InitRatings ==
    /\ pc = "start"
    /\ ratings \in ListsUpTo(RatingValues, MaxRatings)
    /\ ratingDistribution = Undefined
    /\ IdleApps /\ IdlePipeline /\ IdleMerge
    /\ IdleValues /\ IdleStats /\ IdleCorr /\ IdleFreq /\ IdleEngine /\ IdleConvert /\ IdleView

AnalyzeRatingDistribution ==
    /\ pc = "start"
    /\ ratingDistribution' = analyzeRatingDistribution(ratings)
    /\ pc' = "distributed"
    /\ UNCHANGED <<ratings, outsideRatings>>

NextRatings == AnalyzeRatingDistribution

SpecRatings == InitRatings /\ [][NextRatings]_vars

\* The positions of ratings that hold a rating r with low <= r < high, or
\* low <= r <= high.
RatedWithin(low, high, closed) ==
    {i \in 1..Len(ratings) :
        /\ ratings[i].t = "number"
        /\ NumGe(ratings[i], low)
        /\ IF closed THEN NumGe(high, ratings[i]) ELSE NumLt(ratings[i], high)}

\* The five buckets [1,2), [2,3), [3,4), [4,4.5), [4.5,5] as sets of positions.
Histogram ==
    [label \in {"1.0-1.9", "2.0-2.9", "3.0-3.9", "4.0-4.4", "4.5-5.0"} |->
        CASE label = "1.0-1.9" -> RatedWithin(Num(1), Num(2), FALSE)
          [] label = "2.0-2.9" -> RatedWithin(Num(2), Num(3), FALSE)
          [] label = "3.0-3.9" -> RatedWithin(Num(3), Num(4), FALSE)
          [] label = "4.0-4.4" -> RatedWithin(Num(4), Dec(45, 1), FALSE)
          [] label = "4.5-5.0" -> RatedWithin(Dec(45, 1), Num(5), TRUE)]

\* The sum of the counts of a distribution.
RECURSIVE CountSum(_, _)
CountSum(distribution, labels) ==
    IF labels = {} THEN 0
    ELSE LET label == CHOOSE l \in labels : TRUE
         IN distribution[label].n + CountSum(distribution, labels \ {label})

\* C19: the histogram of analyzeRatingDistribution partitions the ratings:
\* every rating from 1.0 to 5.0 is counted in exactly one of the buckets
\* [1,2), [2,3), [3,4), [4,4.5), [4.5,5], and the counts of the buckets sum to
\* the reported total.
C19_HistogramPartitionsTotal ==
    pc = "distributed" =>
        /\ \A i \in RatedWithin(Num(1), Num(5), TRUE) :
              Cardinality({label \in DOMAIN Histogram : i \in Histogram[label]}) = 1
        /\ \A label \in DOMAIN ratingDistribution.distribution :
              ratingDistribution.distribution[label] = Num(Cardinality(Histogram[label]))
        /\ CountSum(ratingDistribution.distribution,
                    DOMAIN ratingDistribution.distribution)
              = ratingDistribution.total.n

----------------------------------------------------------------------------
(* Specification SpecConvert: the three field converters are applied to one *)
(* raw cell                                                                 *)

MaxCellLen == 2

CellAlphabet == {"1", "5", ".", "-", "M", "k", "$"}

\* Raw cells: short texts, texts as they stand in the CSV, the numbers that
\* Papa.parse's dynamicTyping makes of numeric cells, and missing cells.
ConvertCells ==
    {Str(str) : str \in StringsUpTo(CellAlphabet, MaxCellLen)}
    \cup {Str(VariesWithDevice), Str(Free), Str(ZeroText), Str(NanLabel),
          Str(<<"1", "9", "M">>), Str(<<"8", ".", "7", "M">>), Str(<<"1", "G">>),
          Str(<<"1", ",", "0", "0", "0", "+">>), Str(<<"$", "4", ".", "9", "9">>),
          Str(<<"-", "5", "M">>), Str(<<"$", "-", "1">>),
          Str(<<"1", "4", "k">>), Str(<<"2", ".", "5", "K">>), Str(<<"5", "m">>),
          Str(<<"1", "g">>), Str(<<"0", ".", "5", "G">>)}
    \cup {Num(0), Num(100), Num(-1), Dec(15, 1)}
    \cup {Undefined, Null}

InitConvert ==
    /\ pc = "start"
    /\ rawCell \in ConvertCells
    /\ sizeBytes = Undefined
    /\ priceNumber = Undefined
    /\ IdleApps /\ IdlePipeline /\ IdleMerge /\ IdleToolkit /\ IdleEngine
    /\ IdleView

ConvertSizeCell ==
    /\ pc = "start"
    /\ sizeBytes' = convertSizeToBytes(rawCell)
    /\ pc' = "size"
    /\ UNCHANGED <<rawCell, installsNumber, priceNumber, outsideConvert>>

ConvertInstallsCell ==
    /\ pc = "size"
    /\ installsNumber' = convertInstallsToNumber(rawCell)
    /\ pc' = "installs"
    /\ UNCHANGED <<rawCell, sizeBytes, priceNumber, outsideConvert>>

ConvertPriceCell ==
    /\ pc = "installs"
    /\ priceNumber' = convertPriceToNumber(rawCell)
    /\ pc' = "price"
    /\ UNCHANGED <<rawCell, sizeBytes, installsNumber, outsideConvert>>

NextConvert == ConvertSizeCell \/ ConvertInstallsCell \/ ConvertPriceCell

SpecConvert == InitConvert /\ [][NextConvert]_vars

\* A number that is not negative.
NonNegative(v) == v.t \in {"number", "ratio"} /\ v.n >= 0

\* C20: for every cell each of convertSizeToBytes, convertInstallsToNumber
\* and convertPriceToNumber returns a number that is not negative or its
\* sentinel (null for the size, 0 for installs and price), never NaN.
C20_ConvertersGiveNumberOrSentinel ==
    pc = "price" =>
        /\ sizeBytes = Null \/ NonNegative(sizeBytes)
        /\ NonNegative(installsNumber)
        /\ NonNegative(priceNumber)

\* A numeric text: decimal digits with at most one decimal point among them.
DotsOf(str) == {i \in 1..Len(str) : str[i] = "."}

IsNumericText(str) ==
    /\ \A i \in 1..Len(str) : str[i] \in DigitSet \cup {"."}
    /\ Cardinality(DotsOf(str)) <= 1
    /\ \E i \in 1..Len(str) : str[i] \in DigitSet

\* The number a numeric text writes, as a fraction in lowest terms.
NumericTextValue(str) ==
    LET digits == SelectSeq(str, LAMBDA c : c \in DigitSet)
        places == IF DotsOf(str) = {} THEN 0
                  ELSE Len(str) - (CHOOSE i \in DotsOf(str) : TRUE)
    IN Ratio(DigitsValue(digits), Pow10(places))

UnitSuffixes == {"k", "K", "m", "M", "g", "G"}

UnitFactor(c) ==
    IF c \in {"k", "K"} THEN 1024
    ELSE IF c \in {"m", "M"} THEN 1024 * 1024
    ELSE 1024 * 1024 * 1024

\* The cell is a numeric text followed by one unit suffix.
IsSizeText(cell) ==
    /\ cell.t = "string"
    /\ Len(cell.s) >= 2
    /\ cell.s[Len(cell.s)] \in UnitSuffixes
    /\ IsNumericText(SubSeq(cell.s, 1, Len(cell.s) - 1))

\* C21: for a numeric text v followed by k, m or g in either case
\* convertSizeToBytes returns v times 1024, 1024^2 or 1024^3 (the result
\* divided by the unit factor is v), and it returns null for
\* 'Varies with device' and for empty input.
C21_SizeIsValueTimesUnit ==
    pc # "start" =>
        /\ IsSizeText(rawCell) =>
               /\ sizeBytes.t \in {"number", "ratio"}
               /\ Ratio(sizeBytes.n,
                        Denominator(sizeBytes) * UnitFactor(rawCell.s[Len(rawCell.s)]))
                      = NumericTextValue(SubSeq(rawCell.s, 1, Len(rawCell.s) - 1))
        /\ rawCell \in {Str(VariesWithDevice), Str(<<>>), Undefined, Null} =>
               sizeBytes = Null

C21_Witness ==
    /\ pc = "size"
    /\ rawCell = Str(<<"0", ".", "5", "G">>)
    /\ sizeBytes = Num(536870912)

----------------------------------------------------------------------------
(* Specification SpecStats: the mode                                        *)

\* How often value occurs in list.
Frequency(list, value) == Cardinality({i \in 1..Len(list) : list[i] = value})

\* The values of list that occur most often.
MostFrequent(list) ==
    {list[i] : i \in {j \in 1..Len(list) :
                        \A k \in 1..Len(list) :
                            Frequency(list, list[k]) <= Frequency(list, list[j])}}

\* The least of a non-empty set of numbers.
Least(set) == CHOOSE v \in set : \A w \in set : ~RatLt(w, v)

\* C22: for a list with at least one valid number the mode returned by
\* calculateBasicStats is one value, the most frequent value of the list
\* and among several most frequent values the least of them.
C22_ModeIsLeastMostFrequent ==
    (pc = "computed" /\ ~NoValidValue(values)) =>
        basicStats.mode = Least(MostFrequent(cleanValues(values)))

----------------------------------------------------------------------------
(* Specification SpecDedup: the order of the surviving records              *)

\* C27: removeDuplicateApps returns the surviving records in the order in
\* which their names first occur in the input, names made of decimal digits
\* included.
C27_SurvivorsInFirstSeenOrder ==
    pc = "deduplicated" =>
        \A k, l \in 1..Len(cleanApps) :
            k < l => First(Named(apps, cleanApps[k].app))
                        < First(Named(apps, cleanApps[l].app))

----------------------------------------------------------------------------
(* Specification SpecCleanReviews: the sentiment flags                      *)

\* The flags of a review that are true.
FlagsSet(review) ==
    {flag \in {"isPositive", "isNegative", "isNeutral"} : review[flag] = True}

\* How many reviews of the list carry the flag.
Flagged(reviewList, flag) ==
    Cardinality({k \in 1..Len(reviewList) : reviewList[k][flag] = True})

\* C28: every record that processReviewsData produces has exactly one of
\* isPositive, isNegative and isNeutral true, so the three label counts of
\* the produced list sum to its length.
C28_ExactlyOneSentimentFlag ==
    (pc = "reviewsProcessed" /\ ~processedReviews.threw) =>
        /\ \A k \in 1..Len(processedReviews.value) :
              Cardinality(FlagsSet(processedReviews.value[k])) = 1
        /\ Flagged(processedReviews.value, "isPositive")
              + Flagged(processedReviews.value, "isNegative")
              + Flagged(processedReviews.value, "isNeutral")
              = Len(processedReviews.value)

----------------------------------------------------------------------------
(* Specification SpecChart: generateChartData and the rating distribution   *)
(* of generateRatingAnalytics are computed for one app list                 *)

MaxChartApps == 2

\* Apps of one category with ratings on every bucket boundary, inside the
\* buckets, outside the 1 to 5 range and missing, and a rated app of a
\* second category.
ChartApps ==
    {ProcessedApp(Str(GAME), rating, Num(10), Num(1000), Num(0), Null) :
        rating \in {Num(1), Num(2), Num(3), Num(4), Dec(44, 1), Dec(45, 1), Num(5),
                    Dec(5, 1), Num(19), NaN}}
    \cup {ProcessedApp(Str(TOOLS), Dec(25, 1), Num(20), Num(5000), Dec(499, 2), Null)}

InitChart ==
    /\ pc = "start"
    /\ apps \in ListsUpTo(ChartApps, MaxChartApps)
    /\ chartData = Undefined
    /\ ratings = <<>>
    /\ ratingDistribution = Undefined
    /\ IdlePipeline /\ IdleMerge /\ IdleValues /\ IdleStats /\ IdleCorr /\ IdleFreq
    /\ IdleEngine /\ IdleConvert /\ IdleLoader /\ IdleDashboard

GenerateChartData ==
    /\ pc = "start"
    /\ chartData' = generateChartData(apps)
    /\ pc' = "charted"
    /\ UNCHANGED <<apps, ratings, ratingDistribution, outsideChart>>

\* Lines 91-92 of generateRatingAnalytics.
DistributeRatings ==
    /\ pc = "charted"
    /\ ratings' = TruthyRatings(apps)
    /\ ratingDistribution' = analyzeRatingDistribution(TruthyRatings(apps))
    /\ pc' = "rated"
    /\ UNCHANGED <<apps, chartData, outsideChart>>

NextChart == GenerateChartData \/ DistributeRatings

SpecChart == InitChart /\ [][NextChart]_vars

\* The bucket counts of the two computations agree, bucket by bucket.
SameBucketCounts ==
    \A b \in 1..Len(RatingBins) :
        /\ RatingBuckets[b].label \in DOMAIN ratingDistribution.distribution
        /\ chartData.value.ratingDistribution[b].count
              = ratingDistribution.distribution[RatingBuckets[b].label]

\* C29: for every app list the five bucket counts of generateChartData equal
\* the five bucket counts of analyzeRatingDistribution over the ratings of
\* the same apps.
C29_ChartBinsEqualDistribution ==
    pc = "rated" => (~chartData.threw /\ SameBucketCounts)

----------------------------------------------------------------------------
(* Specification SpecCategory: the entries and their totals                 *)

\* The sum of a field of number records over a list.
RECURSIVE Total(_, _)
Total(list, field) ==
    IF list = <<>> THEN 0 ELSE Head(list)[field].n + Total(Tail(list), field)

\* C30: for every app list analyzeCategoryPerformance returns exactly one
\* entry per distinct category, the appCount values sum to the number of
\* apps, and the totalInstalls and totalReviews values sum to the totals
\* over all apps.
C30_OneEntryPerCategoryAndTotals ==
    pc = "analyzed" =>
        /\ ~categoryPerformance.threw
        /\ LET entries == categoryPerformance.value
           IN /\ \A i \in 1..Len(apps) :
                    Cardinality({k \in 1..Len(entries) :
                                    entries[k].category = apps[i].category}) = 1
              /\ \A k \in 1..Len(entries) : InCategory(entries[k].category.s) # {}
              /\ Total(entries, "appCount") = Len(apps)
              /\ Total(entries, "totalInstalls") = Total(apps, "installsNumber")
              /\ Total(entries, "totalReviews") = Total(apps, "reviews")

----------------------------------------------------------------------------
(* Specification SpecLoader: the load cycles of useDataLoader, the one      *)
(* started on mount and those started by reloadData, with their fetches     *)
(* settling in any order                                                    *)

MaxCycles == 2

\* What loadAppsData can settle with: the rows of a file, the rows of a file
\* with a numeric name cell, or the error of a failed request.
AppsOutcomes ==
    {Fulfilled(<<AppRow(Str(NameA), Str(GAME), Dec(45, 1), Num(0), Str(VersionText))>>),
     Fulfilled(<<AppRow(Num(7), Str(GAME), Dec(45, 1), Num(0), Str(VersionText))>>),
     Rejected(HttpError)}

\* What loadReviewsData can settle with.
ReviewsOutcomes ==
    {Fulfilled(<<RawReviewRow(Str(NameA), Str(ReviewText), Str(PositiveLabel),
                              Dec(5, 1), Dec(5, 1))>>),
     Rejected(HttpError)}

InitLoader ==
    /\ pc = "start"
    /\ loaderState = InitialLoaderState
    /\ cycles = <<>>
    /\ IdleApps /\ IdlePipeline /\ IdleMerge /\ IdleToolkit /\ IdleEngine
    /\ IdleConvert /\ IdleChart /\ IdleDashboard

\* The effect on mount: loadData, loadRawData up to its await.
MountLoad ==
    /\ pc = "start"
    /\ loaderState' = setLoadingState(loaderState, TRUE, LOADING_DATA)
    /\ cycles' = <<NewCycle>>
    /\ pc' = "mounted"
    /\ UNCHANGED outsideLoader

\* reloadData: the reset, then loadData, loadRawData up to its await.
ReloadData ==
    /\ pc = "mounted"
    /\ Len(cycles) < MaxCycles
    /\ loaderState' = setLoadingState(ResetData(loaderState), TRUE, LOADING_DATA)
    /\ cycles' = Append(cycles, NewCycle)
    /\ UNCHANGED <<pc, outsideLoader>>

\* The promise of loadAppsData settles.
AppsFetchSettles(c) ==
    /\ c \in 1..Len(cycles)
    /\ cycles[c].appsData = Pending
    /\ \E outcome \in AppsOutcomes :
          cycles' = [cycles EXCEPT
                        ![c].appsData = outcome,
                        ![c].allData = PromiseAll(@, outcome, cycles[c].reviewsData)]
    /\ UNCHANGED <<pc, loaderState, outsideLoader>>

\* The promise of loadReviewsData settles.
ReviewsFetchSettles(c) ==
    /\ c \in 1..Len(cycles)
    /\ cycles[c].reviewsData = Pending
    /\ \E outcome \in ReviewsOutcomes :
          cycles' = [cycles EXCEPT
                        ![c].reviewsData = outcome,
                        ![c].allData = PromiseAll(@, cycles[c].appsData, outcome)]
    /\ UNCHANGED <<pc, loaderState, outsideLoader>>

\* loadAllData and loadRawData go on after their awaits: the raw data is
\* stored and returned, or the error is stored and thrown on, which ends
\* loadData.
LoadRawDataResumes(c) ==
    /\ c \in 1..Len(cycles)
    /\ cycles[c].position = "fetching"
    /\ cycles[c].allData.status # "pending"
    /\ IF cycles[c].allData.status = "fulfilled"
       THEN \E now \in Timestamps :
              LET data == [apps |-> cycles[c].allData.value.apps,
                           reviews |-> cycles[c].allData.value.reviews,
                           loadedAt |-> now]
              IN /\ loaderState' = [loaderState EXCEPT !.rawData = data, !.error = Null]
                 /\ cycles' = [cycles EXCEPT ![c].position = "loaded",
                                             ![c].rawData = data]
       ELSE /\ loaderState' = setError(loaderState, cycles[c].allData.reason)
            /\ cycles' = [cycles EXCEPT ![c].position = "loadFailed"]
    /\ UNCHANGED <<pc, outsideLoader>>

\* loadData goes on after its first await: processData runs to its end.
ProcessData(c) ==
    /\ c \in 1..Len(cycles)
    /\ cycles[c].position = "loaded"
    /\ \E now \in Timestamps :
          LET loading == setLoadingState(loaderState, TRUE, PROCESSING_DATA)
              outcome == processData(cycles[c].rawData, now)
          IN IF outcome.threw
             THEN /\ loaderState' = setError(loading, outcome.message)
                  /\ cycles' = [cycles EXCEPT ![c].position = "processFailed"]
             ELSE /\ loaderState' =
                        [loading EXCEPT !.processedData = outcome.value.processedData,
                                        !.dataQuality = outcome.value.dataQuality,
                                        !.isLoading = FALSE,
                                        !.loadingMessage = Str(<<>>)]
                  /\ cycles' = [cycles EXCEPT ![c].position = "processed"]
    /\ UNCHANGED <<pc, outsideLoader>>

NextLoader ==
    \/ MountLoad
    \/ ReloadData
    \/ \E c \in 1..MaxCycles : AppsFetchSettles(c)
    \/ \E c \in 1..MaxCycles : ReviewsFetchSettles(c)
    \/ \E c \in 1..MaxCycles : LoadRawDataResumes(c)
    \/ \E c \in 1..MaxCycles : ProcessData(c)

SpecLoader == InitLoader /\ [][NextLoader]_vars

\* One of the two fetches of the cycle has failed.
FetchFailed(cycle) ==
    cycle.appsData.status = "rejected" \/ cycle.reviewsData.status = "rejected"

\* C23: both fetches of a cycle are under way together from its start,
\* loadAllData is fulfilled only when both are fulfilled and is rejected as
\* soon as one of them is rejected, and a cycle in which a fetch failed
\* never gets to processData and never sets processedData, in whatever order
\* the two fetches settle.
C23_BothFetchesOrNoProcessing ==
    \A c \in 1..Len(cycles) :
        /\ cycles[c].allData.status = "fulfilled" =>
               /\ cycles[c].appsData.status = "fulfilled"
               /\ cycles[c].reviewsData.status = "fulfilled"
        /\ FetchFailed(cycles[c]) =>
               /\ cycles[c].allData.status = "rejected"
               /\ cycles[c].position \in {"fetching", "loadFailed"}
               /\ cycles[c].rawData = Null
        /\ cycles[c].position \in {"loaded", "processed", "processFailed"} =>
               cycles[c].allData.status = "fulfilled"

\* The only cycle: its apps fetch succeeded, its reviews fetch failed
\* afterwards, and the cycle has ended with the error stored and nothing
\* processed.
C23_Witness ==
    /\ Len(cycles) = 1
    /\ cycles[1].appsData.status = "fulfilled"
    /\ cycles[1].reviewsData.status = "rejected"
    /\ cycles[1].position = "loadFailed"
    /\ loaderState.error = HttpError
    /\ loaderState.processedData = Null
    /\ ~loaderState.isLoading

\* Every cycle that was started has ended.
AllCyclesFinished ==
    /\ cycles # <<>>
    /\ \A c \in 1..Len(cycles) :
          cycles[c].position \in {"loadFailed", "processFailed", "processed"}

\* C26: once all load cycles have finished isLoading is false and either
\* error is set and processedData is null, or processedData is set and error
\* is null.
C26_FinishedLoadIsErrorOrData ==
    AllCyclesFinished =>
        /\ ~loaderState.isLoading
        /\ \/ loaderState.error # Null /\ loaderState.processedData = Null
           \/ loaderState.processedData # Null /\ loaderState.error = Null

----------------------------------------------------------------------------
(* Specification SpecDashboard: the Sidebar filter controls, App and
   useAnalytics while useDataLoader delivers data. *)

\* An app as processAppsData delivers it to the dashboard.
LoadedApp(category, parsedRating, price, type, contentRating) ==
    LET processed == ProcessedApp(category, parsedRating, Num(10), Num(300), price, Null)
    IN [field \in DOMAIN processed \cup {"type", "contentRating"} |->
           IF field = "type" THEN type
           ELSE IF field = "contentRating" THEN contentRating
           ELSE processed[field]]

\* What useDataLoader hands to useAnalytics as apps: nothing before a load
\* and after a reset, two rated apps, or a rated app with an app that is the
\* only one of its category and has no rating.
LoadedAppLists ==
    {<<>>,
     <<LoadedApp(Str(GAME), Dec(45, 1), Num(0), Str(Free), Str(Everyone)),
       LoadedApp(Str(TOOLS), Num(4), Dec(15, 1), Str(Paid), Str(Teen))>>,
     <<LoadedApp(Str(GAME), Num(4), Num(0), Str(Free), Str(Everyone)),
       LoadedApp(Str(TOOLS), NaN, Dec(15, 1), Str(Paid), Str(Teen))>>}

\* What useDataLoader hands to useAnalytics as reviews.
LoadedReviewLists ==
    {<<>>,
     <<ReviewOfRow(RawReviewRow(Str(NameA), Str(ReviewText), Str(PositiveLabel),
                                Dec(5, 1), Dec(5, 1)))>>}

\* The values the Sidebar controls pass to handleFilterChange: the value of
\* the chosen option, '' for the "All ..." option of a select and null for
\* "Any Rating".
SidebarChoices ==
    {[key |-> "category", value |-> v] : v \in {Str(<<>>), Str(GAME), Str(TOOLS)}}
    \cup {[key |-> "minRating", value |-> v] : v \in {Null, Dec(45, 1)}}
    \cup {[key |-> "type", value |-> v] : v \in {Str(<<>>), Str(Paid)}}

InitDashboard ==
    /\ pc = "start"
    /\ IdleApps
    /\ appFilters = NoFilters
    /\ hookApps = <<>>
    /\ hookReviews = <<>>
    /\ hookState = InitialAnalyticsState
    /\ IdlePipeline /\ IdleMerge /\ IdleToolkit /\ IdleEngine /\ IdleConvert
    /\ IdleChart /\ IdleLoader

\* A Sidebar control changes: handleFilterChange builds newFilters from the
\* filters App passed, and App.handleFiltersChange keeps them and hands them
\* to updateFilters.  The render that the two updaters schedule is the next
\* step.
ChangeFilter ==
    /\ pc # "rendering"
    /\ \E choice \in SidebarChoices :
          LET newFilters == handleFilterChange(appFilters, choice.key, choice.value)
          IN /\ appFilters' = newFilters
             /\ hookState' = updateFilters(hookState, newFilters)
    /\ pc' = "rendering"
    /\ UNCHANGED <<hookApps, hookReviews, outsideDashboard>>

\* The "Clear all" button of the Sidebar: clearAllFilters hands {} to
\* App.handleFiltersChange.
ClearAllFilters ==
    /\ pc # "rendering"
    /\ appFilters' = NoFilters
    /\ hookState' = updateFilters(hookState, NoFilters)
    /\ pc' = "rendering"
    /\ UNCHANGED <<hookApps, hookReviews, outsideDashboard>>

\* useDataLoader stores or resets processedData: App renders and hands
\* other apps and reviews to useAnalytics.
DataChanges ==
    /\ pc # "rendering"
    /\ \E appList \in LoadedAppLists, reviewList \in LoadedReviewLists :
          /\ <<appList, reviewList>> # <<hookApps, hookReviews>>
          /\ hookApps' = appList
          /\ hookReviews' = reviewList
    /\ pc' = "rendering"
    /\ UNCHANGED <<appFilters, hookState, outsideDashboard>>

\* useAnalytics renders after a change of its state or its arguments until
\* nothing is left to do: the memos run and the effect stores their result.
Render ==
    /\ pc = "rendering"
    /\ \E now \in Timestamps :
          hookState' = Rerender(hookState, hookApps, hookReviews, now)
    /\ pc' = "rendered"
    /\ UNCHANGED <<appFilters, hookApps, hookReviews, outsideDashboard>>

NextDashboard ==
    \/ ChangeFilter
    \/ ClearAllFilters
    \/ DataChanges
    \/ Render

SpecDashboard == InitDashboard /\ [][NextDashboard]_vars

\* C24: whenever useAnalytics has come to rest, what it exposes is what
\* filterApps and the generators give for the apps, reviews and filters it
\* holds now: filteredApps is the filtered list, and rendering once more with
\* that list changes nothing.
C24_ExposedResultsAreCurrent ==
    pc # "rendering" =>
        /\ hookState.filteredApps = filterApps(hookApps, hookState.filters)
        /\ \E now \in Timestamps :
              hookState = RenderWith(hookState,
                                     filterApps(hookApps, hookState.filters),
                                     hookReviews, now)

\* C25: whenever useAnalytics has come to rest, the filter set it applies is
\* the filter set App holds and passes to the Sidebar, and it is empty after
\* clearAllFilters.
C25_HookFiltersEqualAppFilters ==
    pc # "rendering" => hookState.filters = appFilters

====
